---- MODULE Spec2Model ----
(***************************************************************************)
(* Model of the skycoin wallet Service (package wallet, service.go): a     *)
(* lock-guarded map of wallets plus the first-address index, the wallet    *)
(* directory on disk, and the callers' retained wallet references.         *)
(***************************************************************************)
EXTENDS Integers, Sequences, FiniteSets, TLC

\* ------------------------------------------------------------------ bounds
\* the most entries a wallet is grown to, the largest num passed to NewAddresses,
\* and the largest scan range (options.ScanN) passed to CreateWallet
MaxEntries == 2
MaxNum == 1
MaxScan == 2
\* the most addresses the concurrent callers ask for, all calls together
MaxAdded == 2
\* where a wallet is grown on its own: the most addresses one NewAddresses call
\* asks for, and the most entries the wallet gets
MaxGrowNum == 2
MaxGrowEntries == 4
\* where the scan is looked at on its own: the largest scan range passed to
\* CreateWallet, and the indices the balance getter knows about
MaxScanAhead == 4

\* ------------------------------------------------------------- input sets
WalletIDs == {"a.wlt", "b.wlt"}
Seeds == {"s1", "s2"}
\* the passwords callers try; wallets are locked with LockPassword, so that "q"
\* is always a wrong password
Passwords == {"p", "q"}
LockPassword == "p"
NoPassword == ""
Labels == {"l1", "l2"}
\* the clock: wallets are created at t1, a recovery happens later, at t2
CreateTime == "t1"
RecoverTime == "t2"
\* what a callback does with the wallet it is given: set its label, set it and
\* fail, generate an address, lock the wallet itself
Callbacks == {"setLabel", "genAddr", "labelThenFail", "lockIt"}

\* ------------------------------------------------------------------ errors
nil == "nil"
ErrWalletAPIDisabled == "ErrWalletAPIDisabled"
ErrSeedAPIDisabled == "ErrSeedAPIDisabled"
ErrWalletNotExist == "ErrWalletNotExist"
ErrWalletEncrypted == "ErrWalletEncrypted"
ErrWalletNotEncrypted == "ErrWalletNotEncrypted"
ErrMissingPassword == "ErrMissingPassword"
ErrInvalidPassword == "ErrInvalidPassword"
ErrSeedUsed == "ErrSeedUsed"
ErrWalletNameConflict == "ErrWalletNameConflict"
ErrWalletNotDeterministic == "ErrWalletNotDeterministic"
ErrWalletRecoverSeedWrong == "ErrWalletRecoverSeedWrong"
ErrInvalidParams == "ErrInvalidParams"
ErrInsufficientBalance == "ErrInsufficientBalance"
ErrBalanceGetter == "ErrBalanceGetter"
ErrCallback == "ErrCallback"
ErrSave == "ErrSave"

VARIABLES
  wallets,          \* serv.wallets: wallet id -> the Wallet object the map holds
  firstAddrIDMap,   \* serv.firstAddrIDMap: first address -> wallet id
  disk,             \* the wallet directory: file name -> saved wallet
  enableWalletAPI,  \* serv.enableWalletAPI
  enableSeedAPI,    \* serv.enableSeedAPI
  held,             \* the wallet reference the last call left with the caller
  ret,              \* the last call: method, arguments, returned error
  pre,              \* the map, the index and the directory when that call began
  snap,             \* the stored wallet as it was before the last EncryptWallet
  mu,               \* serv.RWMutex: the writer holding it, the readers holding it
  pc,               \* where each concurrent caller is in the method it called
  loc,              \* each concurrent caller's method, arguments and local w
  ghost,            \* what the concurrent callers were granted so far
  boot              \* the process: running or not, the save in progress, the
                    \* temporary files of the wallet directory

seqVars == <<held, ret, pre, snap>>
concVars == <<mu, pc, loc, ghost>>
vars ==
  <<wallets, firstAddrIDMap, disk, enableWalletAPI, enableSeedAPI, held, ret, pre, snap,
    mu, pc, loc, ghost, boot>>

\* ------------------------------------------------------------ finite maps
EmptyMap == [x \in {} |-> x]
Put(f, k, v) == [x \in (DOMAIN f) \cup {k} |-> IF x = k THEN v ELSE f[x]]
Del(f, k) == [x \in (DOMAIN f) \ {k} |-> f[x]]

\* ------------------------------------------------------------- derivation
\* Key pair i of a seed, and the address of a public key.
PubKey(seed, i) == <<"pub", seed, i>>
SecKey(seed, i) == <<"sec", seed, i>>
NoSecKey == <<>>
NoSeed == ""
AddressFromPubKey(pk) == <<"addr", pk[2], pk[3]>>
Entry(seed, i) ==
  [address |-> AddressFromPubKey(PubKey(seed, i)),
   public |-> PubKey(seed, i),
   secret |-> SecKey(seed, i)]
\* Entries are numbered from 1 in the model; entry k is derivation index k-1.
Entries(seed, n) == [k \in 1..n |-> Entry(seed, k - 1)]

\* ------------------------------------------------------------------ Wallet
NoSecrets == [key |-> NoPassword, seed |-> NoSeed, secs |-> <<>>]
WalletTypeDeterministic == "deterministic"
cryptoType == "scrypt-chacha20poly1305"

Fresh == "fresh"
NoWallet ==
  [id |-> "", label |-> "", encrypted |-> FALSE, seed |-> NoSeed, entries |-> <<>>,
   secrets |-> NoSecrets, timestamp |-> "", type |-> "", cryptoType |-> ""]
\* A reference to a Wallet object: the object's value, and which object it is:
\* the one the map holds under ref, or (Fresh) one the map does not hold.
Handle(w, ref) == [w |-> w, ref |-> ref]
NoHandle == Handle(NoWallet, Fresh)

FirstAddress(w) == w.entries[1].address
FirstAddrsOf(ws) == { FirstAddress(ws[id]) : id \in DOMAIN ws }

\* Wallet.Lock: Plain -> Encrypted, in place.
Lock(w, password, ct) ==
  IF password = NoPassword THEN [err |-> ErrMissingPassword, w |-> w]
  ELSE IF w.encrypted THEN [err |-> ErrWalletEncrypted, w |-> w]
  ELSE [err |-> nil,
        w |-> [w EXCEPT !.encrypted = TRUE,
                        !.seed = NoSeed,
                        !.entries = [k \in DOMAIN w.entries |->
                                       [w.entries[k] EXCEPT !.secret = NoSecKey]],
                        !.secrets = [key |-> password, seed |-> w.seed,
                                     secs |-> [k \in DOMAIN w.entries |->
                                                 w.entries[k].secret]],
                        !.cryptoType = ct]]

\* Wallet.Unlock: Encrypted -> Plain, a new instance.
Unlock(w, password) ==
  IF ~w.encrypted THEN [err |-> ErrWalletNotEncrypted, w |-> w]
  ELSE IF password = NoPassword THEN [err |-> ErrMissingPassword, w |-> w]
  ELSE IF password # w.secrets.key THEN [err |-> ErrInvalidPassword, w |-> w]
  ELSE [err |-> nil,
        w |-> [w EXCEPT !.encrypted = FALSE,
                        !.seed = w.secrets.seed,
                        !.entries = [k \in DOMAIN w.entries |->
                                       [w.entries[k] EXCEPT !.secret = w.secrets.secs[k]]],
                        !.secrets = NoSecrets]]

\* Wallet.GenerateSkycoinAddresses: append num entries derived from the seed.
GenerateSkycoinAddresses(w, num) ==
  IF w.encrypted THEN [err |-> ErrWalletEncrypted, w |-> w, addrs |-> <<>>]
  ELSE LET n == Len(w.entries)
           more == [k \in 1..num |-> Entry(w.seed, n + k - 1)]
       IN [err |-> nil,
           w |-> [w EXCEPT !.entries = w.entries \o more],
           addrs |-> [k \in 1..num |-> more[k].address]]

\* The caller-supplied functions of Update, UpdateSecrets, View, ViewSecrets.
Apply(f, w) ==
  CASE f = "setLabel" -> [err |-> nil, w |-> [w EXCEPT !.label = "l2"]]
    [] f = "labelThenFail" -> [err |-> ErrCallback, w |-> [w EXCEPT !.label = "l2"]]
    [] f = "genAddr" ->
         LET g == GenerateSkycoinAddresses(w, 1) IN [err |-> g.err, w |-> g.w]
    [] f = "lockIt" -> Lock(w, LockPassword, w.cryptoType)

\* Wallet.GuardUpdate: unlock, run fn, lock again, replace *w on full success.
GuardUpdateWith(w, password, r) ==
  IF r.err # nil THEN [err |-> r.err, w |-> w]
  ELSE LET l == Lock(r.w, password, w.cryptoType) IN
       IF l.err # nil THEN [err |-> l.err, w |-> w] ELSE [err |-> nil, w |-> l.w]

GuardUpdate(w, password, f) ==
  LET u == Unlock(w, password) IN
  IF u.err # nil THEN [err |-> u.err, w |-> w]
  ELSE GuardUpdateWith(w, password, Apply(f, u.w))

\* Wallet.GuardView: unlock, run fn on the plaintext copy, discard it.
GuardView(w, password, f) ==
  LET u == Unlock(w, password) IN
  IF u.err # nil THEN [err |-> u.err, w |-> w]
  ELSE [err |-> Apply(f, u.w).err, w |-> w]


\* ------------------------------------------------- wallet construction
\* Address Scanner: with n entries derived, derive another one while the most
\* recently derived address (index n-1) has a balance, up to scanN entries.
RECURSIVE ScanAddresses(_, _, _)
ScanAddresses(n, scanN, funded) ==
  IF n >= scanN \/ (n - 1) \notin funded THEN n
  ELSE ScanAddresses(n + 1, scanN, funded)

\* NewWallet: a wallet of generateN entries derived from options.seed, locked
\* with options.password when options.encrypt is set.
NewWallet(wltName, options, generateN) ==
  LET w == [id |-> wltName, label |-> options.label, encrypted |-> FALSE,
            seed |-> options.seed, entries |-> Entries(options.seed, generateN),
            secrets |-> NoSecrets, timestamp |-> options.now,
            type |-> WalletTypeDeterministic, cryptoType |-> options.cryptoType]
  IN IF options.encrypt THEN Lock(w, options.password, options.cryptoType)
     ELSE [err |-> nil, w |-> w]

\* NewWalletScanAhead: the first entry, then the scan against the balance getter.
NewWalletScanAhead(wltName, options, bg) ==
  IF options.scanN > 1 /\ bg.err THEN [err |-> ErrBalanceGetter, w |-> NoWallet]
  ELSE NewWallet(wltName, options, ScanAddresses(1, options.scanN, bg.funded))

\* ------------------------------------------------------------ Wallets map
\* Wallets.get / the clone that Service.getWallet returns.
getWalletNoClone(ws, wltID) ==
  IF wltID \notin DOMAIN ws THEN [err |-> ErrWalletNotExist, h |-> NoHandle]
  ELSE [err |-> nil, h |-> Handle(ws[wltID], wltID)]

getWallet(ws, wltID) ==
  IF wltID \notin DOMAIN ws THEN [err |-> ErrWalletNotExist, h |-> NoHandle]
  ELSE [err |-> nil, h |-> Handle(ws[wltID], Fresh)]

\* The map after the object behind h was changed in place to h.w.
WriteThrough(ws, h) ==
  IF h.ref \in DOMAIN ws THEN [ws EXCEPT ![h.ref] = h.w] ELSE ws

\* Wallets.add: refuses a name the map already has.
add(ws, w) ==
  IF w.id \in DOMAIN ws THEN [err |-> ErrWalletNameConflict, wallets |-> ws]
  ELSE [err |-> nil, wallets |-> Put(ws, w.id, w)]

\* Wallets.set: the map takes its own copy; the caller's object stays outside.
set(ws, h) == [wallets |-> Put(ws, h.w.id, h.w), h |-> Handle(h.w, Fresh)]

\* Wallets.remove
remove(ws, wltID) == Del(ws, wltID)

\* Wallet.Save: the file is replaced as a whole, or the save fails.
Save(dk, w, saveOK) ==
  IF saveOK THEN [err |-> nil, disk |-> Put(dk, w.id, w)]
  ELSE [err |-> ErrSave, disk |-> dk]

\* ---------------------------------------------------------------- results
NoOut == <<>>
Res(ws, idx, dk, err, h) ==
  [wallets |-> ws, index |-> idx, disk |-> dk, err |-> err, h |-> h, out |-> NoOut]
WithOut(r, out) == [r EXCEPT !.out = IF r.err = nil THEN out ELSE NoOut]
\* a method that returns (*Wallet, error) returns no wallet with an error
Returned(r) == [r EXCEPT !.h = IF r.err = nil THEN r.h ELSE NoHandle]
\* a method that returns no wallet and runs no callback
NoRef(r) == [r EXCEPT !.h = NoHandle]
Fail(err) == Res(wallets, firstAddrIDMap, disk, err, NoHandle)
\* a failure after the object behind h may have been changed in place
FailWith(err, h) == Res(WriteThrough(wallets, h), firstAddrIDMap, disk, err, h)

\* save h.w, then set it in the map (the tail of every mutating method)
SaveThenSet(h, saveOK) ==
  LET ws1 == WriteThrough(wallets, h)
      sv == Save(disk, h.w, saveOK)
  IN IF sv.err # nil THEN Res(ws1, firstAddrIDMap, disk, sv.err, h)
     ELSE LET st == set(ws1, h) IN Res(st.wallets, firstAddrIDMap, sv.disk, nil, st.h)

\* loadWallet that builds the wallet with its first entry and does not scan
loadWalletNoScan(wltName, options, bg, saveOK) ==
  LET nw == NewWallet(wltName, options, 1) IN
  IF nw.err # nil THEN Fail(nw.err)
  ELSE IF FirstAddress(nw.w) \in DOMAIN firstAddrIDMap THEN Fail(ErrSeedUsed)
  ELSE LET ad == add(wallets, nw.w) IN
       IF ad.err # nil THEN Fail(ad.err)
       ELSE LET sv == Save(disk, nw.w, saveOK) IN
            IF sv.err # nil
            THEN Res(remove(ad.wallets, nw.w.id), firstAddrIDMap, disk, sv.err, NoHandle)
            ELSE Res(ad.wallets, Put(firstAddrIDMap, FirstAddress(nw.w), nw.w.id),
                     sv.disk, nil, Handle(nw.w, Fresh))

\* loadWallet that forgets to take the wallet out of the map when Save fails
loadWalletNoRollback(wltName, options, bg, saveOK) ==
  LET nw == NewWalletScanAhead(wltName, options, bg) IN
  IF nw.err # nil THEN Fail(nw.err)
  ELSE IF FirstAddress(nw.w) \in DOMAIN firstAddrIDMap THEN Fail(ErrSeedUsed)
  ELSE LET ad == add(wallets, nw.w) IN
       IF ad.err # nil THEN Fail(ad.err)
       ELSE LET sv == Save(disk, nw.w, saveOK) IN
            IF sv.err # nil
            THEN Res(ad.wallets, firstAddrIDMap, disk, sv.err, NoHandle)
            ELSE Res(ad.wallets, Put(firstAddrIDMap, FirstAddress(nw.w), nw.w.id),
                     sv.disk, nil, Handle(nw.w, Fresh))

\* loadWallet that does not look the first address up in firstAddrIDMap
loadWalletNoSeedCheck(wltName, options, bg, saveOK) ==
  LET nw == NewWalletScanAhead(wltName, options, bg) IN
  IF nw.err # nil THEN Fail(nw.err)
  ELSE LET ad == add(wallets, nw.w) IN
       IF ad.err # nil THEN Fail(ad.err)
       ELSE LET sv == Save(disk, nw.w, saveOK) IN
            IF sv.err # nil
            THEN Res(remove(ad.wallets, nw.w.id), firstAddrIDMap, disk, sv.err, NoHandle)
            ELSE Res(ad.wallets, Put(firstAddrIDMap, FirstAddress(nw.w), nw.w.id),
                     sv.disk, nil, Handle(nw.w, Fresh))

\* ------------------------------------------------------- Service methods
loadWallet(wltName, options, bg, saveOK) ==
  LET nw == NewWalletScanAhead(wltName, options, bg) IN
  IF nw.err # nil THEN Fail(nw.err)
  ELSE IF FirstAddress(nw.w) \in DOMAIN firstAddrIDMap THEN Fail(ErrSeedUsed)
  ELSE LET ad == add(wallets, nw.w) IN
       IF ad.err # nil THEN Fail(ad.err)
       ELSE LET sv == Save(disk, nw.w, saveOK) IN
            IF sv.err # nil
            THEN Res(remove(ad.wallets, nw.w.id), firstAddrIDMap, disk, sv.err, NoHandle)
            ELSE Res(ad.wallets, Put(firstAddrIDMap, FirstAddress(nw.w), nw.w.id),
                     sv.disk, nil, Handle(nw.w, Fresh))

CreateWallet(wltName, options, bg, saveOK) ==
  IF ~enableWalletAPI THEN Fail(ErrWalletAPIDisabled)
  ELSE loadWallet(wltName,
                  IF options.encrypt THEN [options EXCEPT !.cryptoType = cryptoType]
                  ELSE options,
                  bg, saveOK)

\* EncryptWallet that sets the encrypted flag and leaves the secrets where they are
EncryptWalletFlagOnly(wltID, password, saveOK) ==
  IF ~enableWalletAPI THEN Fail(ErrWalletAPIDisabled)
  ELSE LET g == getWallet(wallets, wltID) IN
  IF g.err # nil THEN Fail(g.err)
  ELSE IF g.h.w.encrypted THEN Fail(ErrWalletEncrypted)
  ELSE IF password = NoPassword THEN Fail(ErrMissingPassword)
  ELSE Returned(SaveThenSet(Handle([g.h.w EXCEPT !.encrypted = TRUE], g.h.ref), saveOK))

\* EncryptWallet that leaves the IsEncrypted test to Wallet.Lock
EncryptWalletNoStateCheck(wltID, password, saveOK) ==
  IF ~enableWalletAPI THEN Fail(ErrWalletAPIDisabled)
  ELSE LET g == getWallet(wallets, wltID) IN
  IF g.err # nil THEN Fail(g.err)
  ELSE LET l == Lock(g.h.w, password, cryptoType) IN
  IF l.err # nil THEN Fail(l.err)
  ELSE Returned(SaveThenSet(Handle(l.w, g.h.ref), saveOK))

EncryptWallet(wltID, password, saveOK) ==
  IF ~enableWalletAPI THEN Fail(ErrWalletAPIDisabled)
  ELSE LET g == getWallet(wallets, wltID) IN
  IF g.err # nil THEN Fail(g.err)
  ELSE IF g.h.w.encrypted THEN Fail(ErrWalletEncrypted)
  ELSE LET l == Lock(g.h.w, password, cryptoType) IN
  IF l.err # nil THEN Fail(l.err)
  ELSE Returned(SaveThenSet(Handle(l.w, g.h.ref), saveOK))

\* DecryptWallet that goes on when Unlock returns an error
DecryptWalletIgnoresUnlockError(wltID, password, saveOK) ==
  IF ~enableWalletAPI THEN Fail(ErrWalletAPIDisabled)
  ELSE LET g == getWallet(wallets, wltID) IN
  IF g.err # nil THEN Fail(g.err)
  ELSE IF ~g.h.w.encrypted THEN Fail(ErrWalletNotEncrypted)
  ELSE LET u == Unlock(g.h.w, password) IN
  Returned(SaveThenSet(Handle(u.w, Fresh), saveOK))

\* DecryptWallet that saves and sets w, the locked clone, not unlockWlt
DecryptWalletSetsLocked(wltID, password, saveOK) ==
  IF ~enableWalletAPI THEN Fail(ErrWalletAPIDisabled)
  ELSE LET g == getWallet(wallets, wltID) IN
  IF g.err # nil THEN Fail(g.err)
  ELSE IF ~g.h.w.encrypted THEN Fail(ErrWalletNotEncrypted)
  ELSE LET u == Unlock(g.h.w, password) IN
  IF u.err # nil THEN Fail(u.err)
  ELSE Returned(SaveThenSet(g.h, saveOK))

DecryptWallet(wltID, password, saveOK) ==
  IF ~enableWalletAPI THEN Fail(ErrWalletAPIDisabled)
  ELSE LET g == getWallet(wallets, wltID) IN
  IF g.err # nil THEN Fail(g.err)
  ELSE IF ~g.h.w.encrypted THEN Fail(ErrWalletNotEncrypted)
  ELSE LET u == Unlock(g.h.w, password) IN
  IF u.err # nil THEN Fail(u.err)
  ELSE Returned(SaveThenSet(Handle(u.w, Fresh), saveOK))

\* NewAddresses between getWallet and the save: the addresses generated on w,
\* under GuardUpdate when w is encrypted
GenerateOn(w, password, num) ==
  IF w.encrypted
  THEN LET u == Unlock(w, password) IN
       IF u.err # nil THEN [err |-> u.err, w |-> w]
       ELSE GuardUpdateWith(w, password, GenerateSkycoinAddresses(u.w, num))
  ELSE IF password # NoPassword THEN [err |-> ErrWalletNotEncrypted, w |-> w]
  ELSE LET f == GenerateSkycoinAddresses(w, num) IN [err |-> f.err, w |-> f.w]

\* NewAddresses that saves the wallet and does not set it in the map
NewAddressesNoSet(wltID, password, num, saveOK) ==
  IF ~enableWalletAPI THEN Fail(ErrWalletAPIDisabled)
  ELSE LET g == getWallet(wallets, wltID) IN
  IF g.err # nil THEN Fail(g.err)
  ELSE LET f == GenerateOn(g.h.w, password, num)
           sv == Save(disk, f.w, saveOK)
           addrs == [k \in 1..num |-> <<"addr", "", k>>]
       IN IF f.err # nil THEN Fail(f.err)
          ELSE IF sv.err # nil THEN Fail(sv.err)
          ELSE WithOut(Res(wallets, firstAddrIDMap, sv.disk, nil, NoHandle), addrs)

NewAddresses(wltID, password, num, saveOK) ==
  IF ~enableWalletAPI THEN Fail(ErrWalletAPIDisabled)
  ELSE LET g == getWallet(wallets, wltID) IN
  IF g.err # nil THEN Fail(g.err)
  ELSE IF g.h.w.encrypted
  THEN LET u == Unlock(g.h.w, password)
           gu == IF u.err # nil THEN [err |-> u.err, w |-> g.h.w]
                 ELSE GuardUpdateWith(g.h.w, password,
                                      GenerateSkycoinAddresses(u.w, num))
           addrs == [k \in 1..num |-> Entry(u.w.seed, Len(u.w.entries) + k - 1).address]
       IN IF gu.err # nil THEN Fail(gu.err)
          ELSE NoRef(WithOut(SaveThenSet(Handle(gu.w, g.h.ref), saveOK), addrs))
  ELSE IF password # NoPassword THEN Fail(ErrWalletNotEncrypted)
  ELSE LET f == GenerateSkycoinAddresses(g.h.w, num) IN
       IF f.err # nil THEN NoRef(FailWith(f.err, Handle(f.w, g.h.ref)))
       ELSE NoRef(WithOut(SaveThenSet(Handle(f.w, g.h.ref), saveOK), f.addrs))


GetSkycoinAddresses(wltID) ==
  IF ~enableWalletAPI THEN Fail(ErrWalletAPIDisabled)
  ELSE LET g == getWallet(wallets, wltID) IN
  IF g.err # nil THEN Fail(g.err)
  ELSE WithOut(Fail(nil), [k \in DOMAIN g.h.w.entries |-> g.h.w.entries[k].address])

GetWallet(wltID) ==
  IF ~enableWalletAPI THEN Fail(ErrWalletAPIDisabled)
  ELSE LET g == getWallet(wallets, wltID) IN
  IF g.err # nil THEN Fail(g.err)
  ELSE Res(wallets, firstAddrIDMap, disk, nil, g.h)

\* GetWallets returns a clone of every wallet; keep is the one the caller goes
\* on to use.
GetWallets(keep) ==
  IF ~enableWalletAPI THEN Fail(ErrWalletAPIDisabled)
  ELSE IF keep \notin DOMAIN wallets THEN Fail(nil)
  ELSE Res(wallets, firstAddrIDMap, disk, nil, Handle(wallets[keep], Fresh))

\* Wallet.CreateTransaction needs the private keys; txOK says whether the
\* spendable outputs cover the amount.
WalletCreateTransaction(w, txOK) ==
  IF w.encrypted THEN ErrWalletEncrypted
  ELSE IF ~txOK THEN ErrInsufficientBalance ELSE nil

\* CreateTransaction that builds the transaction first and tests afterwards
\* whether a password was expected
CreateTransactionPasswordCheckLast(params, txOK) ==
  IF ~enableWalletAPI THEN Fail(ErrWalletAPIDisabled)
  ELSE IF ~params.valid THEN Fail(ErrInvalidParams)
  ELSE LET g == getWallet(wallets, params.id)
           u == Unlock(g.h.w, params.password)
           built == IF g.h.w.encrypted
                    THEN IF u.err # nil THEN u.err ELSE WalletCreateTransaction(u.w, txOK)
                    ELSE WalletCreateTransaction(g.h.w, txOK)
       IN IF g.err # nil THEN Fail(g.err)
          ELSE IF built # nil THEN Fail(built)
          ELSE IF g.h.w.encrypted /\ params.password = NoPassword
          THEN Fail(ErrMissingPassword)
          ELSE IF ~g.h.w.encrypted /\ params.password # NoPassword
          THEN Fail(ErrWalletNotEncrypted)
          ELSE WithOut(Fail(nil), <<"tx", params.id>>)

\* CreateTransaction that validates the parameters before it tests the flag
CreateTransactionValidateFirst(params, txOK) ==
  IF ~params.valid THEN Fail(ErrInvalidParams)
  ELSE IF ~enableWalletAPI THEN Fail(ErrWalletAPIDisabled)
  ELSE LET g == getWallet(wallets, params.id) IN
  IF g.err # nil THEN Fail(g.err)
  ELSE IF g.h.w.encrypted /\ params.password = NoPassword THEN Fail(ErrMissingPassword)
  ELSE IF ~g.h.w.encrypted /\ params.password # NoPassword THEN Fail(ErrWalletNotEncrypted)
  ELSE IF g.h.w.encrypted
  THEN LET u == Unlock(g.h.w, params.password) IN
       IF u.err # nil THEN Fail(u.err)
       ELSE WithOut(Fail(WalletCreateTransaction(u.w, txOK)), <<"tx", params.id>>)
  ELSE WithOut(Fail(WalletCreateTransaction(g.h.w, txOK)), <<"tx", params.id>>)

CreateTransaction(params, txOK) ==
  IF ~enableWalletAPI THEN Fail(ErrWalletAPIDisabled)
  ELSE IF ~params.valid THEN Fail(ErrInvalidParams)
  ELSE LET g == getWallet(wallets, params.id) IN
  IF g.err # nil THEN Fail(g.err)
  ELSE IF g.h.w.encrypted /\ params.password = NoPassword THEN Fail(ErrMissingPassword)
  ELSE IF ~g.h.w.encrypted /\ params.password # NoPassword THEN Fail(ErrWalletNotEncrypted)
  ELSE IF g.h.w.encrypted
  THEN LET u == Unlock(g.h.w, params.password) IN
       IF u.err # nil THEN Fail(u.err)
       ELSE WithOut(Fail(WalletCreateTransaction(u.w, txOK)), <<"tx", params.id>>)
  ELSE WithOut(Fail(WalletCreateTransaction(g.h.w, txOK)), <<"tx", params.id>>)

\* UpdateWalletLabel that sets the wallet in the map without saving it
UpdateWalletLabelNoSave(wltID, label, saveOK) ==
  IF ~enableWalletAPI THEN Fail(ErrWalletAPIDisabled)
  ELSE LET g == getWallet(wallets, wltID) IN
  IF g.err # nil THEN Fail(g.err)
  ELSE LET h == Handle([g.h.w EXCEPT !.label = label], g.h.ref)
       IN Res(set(WriteThrough(wallets, h), h).wallets, firstAddrIDMap, disk, nil, NoHandle)

UpdateWalletLabel(wltID, label, saveOK) ==
  IF ~enableWalletAPI THEN Fail(ErrWalletAPIDisabled)
  ELSE LET g == getWallet(wallets, wltID) IN
  IF g.err # nil THEN Fail(g.err)
  ELSE NoRef(SaveThenSet(Handle([g.h.w EXCEPT !.label = label], g.h.ref), saveOK))

\* Remove that takes the wallet out of the map and leaves its index entry
RemoveKeepsIndex(wltID) ==
  IF ~enableWalletAPI THEN Fail(ErrWalletAPIDisabled)
  ELSE Res(remove(wallets, wltID), firstAddrIDMap, disk, nil, NoHandle)

Remove(wltID) ==
  IF ~enableWalletAPI THEN Fail(ErrWalletAPIDisabled)
  ELSE LET idx == IF wltID \in DOMAIN wallets /\ Len(wallets[wltID].entries) > 0
                  THEN Del(firstAddrIDMap, FirstAddress(wallets[wltID]))
                  ELSE firstAddrIDMap
       IN Res(remove(wallets, wltID), idx, disk, nil, NoHandle)

\* GetWalletSeed that also gives the seed of a plain wallet
GetWalletSeedOfPlain(wltID, password) ==
  IF ~enableWalletAPI THEN Fail(ErrWalletAPIDisabled)
  ELSE IF ~enableSeedAPI THEN Fail(ErrSeedAPIDisabled)
  ELSE LET g == getWallet(wallets, wltID) IN
  IF g.err # nil THEN Fail(g.err)
  ELSE IF ~g.h.w.encrypted THEN WithOut(Fail(nil), g.h.w.seed)
  ELSE LET u == Unlock(g.h.w, password) IN
       IF u.err # nil THEN Fail(u.err) ELSE WithOut(Fail(nil), u.w.seed)

GetWalletSeed(wltID, password) ==
  IF ~enableWalletAPI THEN Fail(ErrWalletAPIDisabled)
  ELSE IF ~enableSeedAPI THEN Fail(ErrSeedAPIDisabled)
  ELSE LET g == getWallet(wallets, wltID) IN
  IF g.err # nil THEN Fail(g.err)
  ELSE IF ~g.h.w.encrypted THEN Fail(ErrWalletNotEncrypted)
  ELSE LET u == Unlock(g.h.w, password) IN
       IF u.err # nil THEN Fail(u.err) ELSE WithOut(Fail(nil), u.w.seed)

\* UpdateSecrets that runs the callback on the unlocked wallet and saves that
\* wallet, without locking it again
UpdateSecretsNoRelock(wltID, password, f, saveOK) ==
  IF ~enableWalletAPI THEN Fail(ErrWalletAPIDisabled)
  ELSE LET g == getWallet(wallets, wltID) IN
  IF g.err # nil THEN Fail(g.err)
  ELSE IF g.h.w.encrypted
  THEN LET u == Unlock(g.h.w, password)
           r == Apply(f, u.w)
       IN IF u.err # nil THEN Fail(u.err)
          ELSE IF r.err # nil THEN [Fail(r.err) EXCEPT !.h = Handle(r.w, Fresh)]
          ELSE [SaveThenSet(Handle(r.w, g.h.ref), saveOK) EXCEPT !.h = Handle(r.w, Fresh)]
  ELSE IF password # NoPassword THEN Fail(ErrWalletNotEncrypted)
  ELSE LET r == Apply(f, g.h.w) IN
       IF r.err # nil THEN FailWith(r.err, Handle(r.w, g.h.ref))
       ELSE SaveThenSet(Handle(r.w, g.h.ref), saveOK)

UpdateSecrets(wltID, password, f, saveOK) ==
  IF ~enableWalletAPI THEN Fail(ErrWalletAPIDisabled)
  ELSE LET g == getWallet(wallets, wltID) IN
  IF g.err # nil THEN Fail(g.err)
  ELSE IF g.h.w.encrypted
  THEN LET gu == GuardUpdate(g.h.w, password, f)
           \* the callback ran on the unlocked working copy, if Unlock succeeded
           u == Unlock(g.h.w, password)
           seen == IF u.err = nil THEN Handle(Apply(f, u.w).w, Fresh) ELSE NoHandle
       IN IF gu.err # nil THEN [Fail(gu.err) EXCEPT !.h = seen]
          ELSE [SaveThenSet(Handle(gu.w, g.h.ref), saveOK) EXCEPT !.h = seen]
  ELSE IF password # NoPassword THEN Fail(ErrWalletNotEncrypted)
  ELSE LET r == Apply(f, g.h.w) IN
       IF r.err # nil THEN FailWith(r.err, Handle(r.w, g.h.ref))
       ELSE SaveThenSet(Handle(r.w, g.h.ref), saveOK)

Update(wltID, f, saveOK) ==
  IF ~enableWalletAPI THEN Fail(ErrWalletAPIDisabled)
  ELSE LET g == getWallet(wallets, wltID) IN
  IF g.err # nil THEN Fail(g.err)
  ELSE LET r == Apply(f, g.h.w) IN
       IF r.err # nil THEN FailWith(r.err, Handle(r.w, g.h.ref))
       ELSE SaveThenSet(Handle(r.w, g.h.ref), saveOK)

\* ViewSecrets that runs the callback on a plain wallet whatever the password
ViewSecretsIgnoresPassword(wltID, password, f) ==
  IF ~enableWalletAPI THEN Fail(ErrWalletAPIDisabled)
  ELSE LET g == getWallet(wallets, wltID) IN
  IF g.err # nil THEN Fail(g.err)
  ELSE IF g.h.w.encrypted
  THEN LET u == Unlock(g.h.w, password) IN
       IF u.err # nil THEN Fail(u.err)
       ELSE Res(wallets, firstAddrIDMap, disk,
                GuardView(g.h.w, password, f).err, Handle(Apply(f, u.w).w, Fresh))
  ELSE LET r == Apply(f, g.h.w) IN FailWith(r.err, Handle(r.w, g.h.ref))

\* ViewSecrets that keeps what the callback did, as UpdateSecrets does
ViewSecretsKeepsChange(wltID, password, f) == UpdateSecrets(wltID, password, f, TRUE)

ViewSecrets(wltID, password, f) ==
  IF ~enableWalletAPI THEN Fail(ErrWalletAPIDisabled)
  ELSE LET g == getWallet(wallets, wltID) IN
  IF g.err # nil THEN Fail(g.err)
  ELSE IF g.h.w.encrypted
  THEN LET u == Unlock(g.h.w, password) IN
       IF u.err # nil THEN Fail(u.err)
       ELSE Res(wallets, firstAddrIDMap, disk,
                GuardView(g.h.w, password, f).err, Handle(Apply(f, u.w).w, Fresh))
  ELSE IF password # NoPassword THEN Fail(ErrWalletNotEncrypted)
  ELSE LET r == Apply(f, g.h.w) IN FailWith(r.err, Handle(r.w, g.h.ref))

View(wltID, f) ==
  IF ~enableWalletAPI THEN Fail(ErrWalletAPIDisabled)
  ELSE LET g == getWallet(wallets, wltID) IN
  IF g.err # nil THEN Fail(g.err)
  ELSE LET r == Apply(f, g.h.w) IN FailWith(r.err, Handle(r.w, g.h.ref))

\* RecoverWallet that compares the seed's first address before it tests the type
RecoverWalletSeedCheckFirst(wltName, seed, password, now, saveOK) ==
  IF ~enableWalletAPI THEN Fail(ErrWalletAPIDisabled)
  ELSE LET g == getWallet(wallets, wltName) IN
  IF g.err # nil THEN Fail(g.err)
  ELSE IF ~g.h.w.encrypted THEN Fail(ErrWalletNotEncrypted)
  ELSE IF AddressFromPubKey(PubKey(seed, 0)) # FirstAddress(g.h.w)
  THEN Fail(ErrWalletRecoverSeedWrong)
  ELSE IF g.h.w.type # WalletTypeDeterministic THEN Fail(ErrWalletNotDeterministic)
  ELSE LET nw == NewWallet(wltName,
                           [seed |-> seed, label |-> g.h.w.label,
                            encrypt |-> password # NoPassword, password |-> password,
                            cryptoType |-> g.h.w.cryptoType, now |-> now,
                            scanN |-> 1],
                           Len(g.h.w.entries))
       IN IF nw.err # nil THEN Fail(nw.err)
          ELSE LET w2 == [nw.w EXCEPT !.timestamp = g.h.w.timestamp]
                   r == SaveThenSet(Handle(w2, Fresh), saveOK)
               IN [r EXCEPT !.h = IF r.err = nil THEN Handle(w2, Fresh) ELSE NoHandle]

\* RecoverWallet that asks NewWallet for no entries
RecoverWalletNoEntries(wltName, seed, password, now, saveOK) ==
  IF ~enableWalletAPI THEN Fail(ErrWalletAPIDisabled)
  ELSE LET g == getWallet(wallets, wltName) IN
  IF g.err # nil THEN Fail(g.err)
  ELSE IF ~g.h.w.encrypted THEN Fail(ErrWalletNotEncrypted)
  ELSE IF g.h.w.type # WalletTypeDeterministic THEN Fail(ErrWalletNotDeterministic)
  ELSE IF AddressFromPubKey(PubKey(seed, 0)) # FirstAddress(g.h.w)
  THEN Fail(ErrWalletRecoverSeedWrong)
  ELSE LET nw == NewWallet(wltName,
                           [seed |-> seed, label |-> g.h.w.label,
                            encrypt |-> password # NoPassword, password |-> password,
                            cryptoType |-> g.h.w.cryptoType, now |-> now,
                            scanN |-> 1],
                           0)
       IN IF nw.err # nil THEN Fail(nw.err)
          ELSE LET w2 == [nw.w EXCEPT !.timestamp = g.h.w.timestamp]
                   r == SaveThenSet(Handle(w2, Fresh), saveOK)
               IN [r EXCEPT !.h = IF r.err = nil THEN Handle(w2, Fresh) ELSE NoHandle]

\* RecoverWallet that leaves the new wallet its own timestamp
RecoverWalletNewTimestamp(wltName, seed, password, now, saveOK) ==
  IF ~enableWalletAPI THEN Fail(ErrWalletAPIDisabled)
  ELSE LET g == getWallet(wallets, wltName) IN
  IF g.err # nil THEN Fail(g.err)
  ELSE IF ~g.h.w.encrypted THEN Fail(ErrWalletNotEncrypted)
  ELSE IF g.h.w.type # WalletTypeDeterministic THEN Fail(ErrWalletNotDeterministic)
  ELSE IF AddressFromPubKey(PubKey(seed, 0)) # FirstAddress(g.h.w)
  THEN Fail(ErrWalletRecoverSeedWrong)
  ELSE LET nw == NewWallet(wltName,
                           [seed |-> seed, label |-> g.h.w.label,
                            encrypt |-> password # NoPassword, password |-> password,
                            cryptoType |-> g.h.w.cryptoType, now |-> now,
                            scanN |-> 1],
                           Len(g.h.w.entries))
       IN IF nw.err # nil THEN Fail(nw.err)
          ELSE LET r == SaveThenSet(Handle(nw.w, Fresh), saveOK)
               IN [r EXCEPT !.h = IF r.err = nil THEN Handle(nw.w, Fresh) ELSE NoHandle]

\* RecoverWallet that does not compare the seed's first address
RecoverWalletNoSeedCheck(wltName, seed, password, now, saveOK) ==
  IF ~enableWalletAPI THEN Fail(ErrWalletAPIDisabled)
  ELSE LET g == getWallet(wallets, wltName) IN
  IF g.err # nil THEN Fail(g.err)
  ELSE IF ~g.h.w.encrypted THEN Fail(ErrWalletNotEncrypted)
  ELSE IF g.h.w.type # WalletTypeDeterministic THEN Fail(ErrWalletNotDeterministic)
  ELSE LET nw == NewWallet(wltName,
                           [seed |-> seed, label |-> g.h.w.label,
                            encrypt |-> password # NoPassword, password |-> password,
                            cryptoType |-> g.h.w.cryptoType, now |-> now,
                            scanN |-> 1],
                           Len(g.h.w.entries))
       IN IF nw.err # nil THEN Fail(nw.err)
          ELSE LET w2 == [nw.w EXCEPT !.timestamp = g.h.w.timestamp]
                   r == SaveThenSet(Handle(w2, Fresh), saveOK)
               IN [r EXCEPT !.h = IF r.err = nil THEN Handle(w2, Fresh) ELSE NoHandle]

RecoverWallet(wltName, seed, password, now, saveOK) ==
  IF ~enableWalletAPI THEN Fail(ErrWalletAPIDisabled)
  ELSE LET g == getWallet(wallets, wltName) IN
  IF g.err # nil THEN Fail(g.err)
  ELSE IF ~g.h.w.encrypted THEN Fail(ErrWalletNotEncrypted)
  ELSE IF g.h.w.type # WalletTypeDeterministic THEN Fail(ErrWalletNotDeterministic)
  ELSE IF AddressFromPubKey(PubKey(seed, 0)) # FirstAddress(g.h.w)
  THEN Fail(ErrWalletRecoverSeedWrong)
  ELSE LET nw == NewWallet(wltName,
                           [seed |-> seed, label |-> g.h.w.label,
                            encrypt |-> password # NoPassword, password |-> password,
                            cryptoType |-> g.h.w.cryptoType, now |-> now,
                            scanN |-> 1],
                           Len(g.h.w.entries))
       IN IF nw.err # nil THEN Fail(nw.err)
          ELSE LET w2 == [nw.w EXCEPT !.timestamp = g.h.w.timestamp]
                   r == SaveThenSet(Handle(w2, Fresh), saveOK)
               IN [r EXCEPT !.h = IF r.err = nil THEN Handle(w2, Fresh) ELSE NoHandle]


\* ------------------------------------------------------------ the calls
NoExtra == [encrypt |-> FALSE, bgErr |-> FALSE]
Ret(op, id, password, seed, num, f, saveOK, r) ==
  [op |-> op, id |-> id, password |-> password, seed |-> seed, num |-> num,
   f |-> f, saveOK |-> saveOK, x |-> NoExtra, err |-> r.err, out |-> r.out]

Idle == Ret("idle", "", NoPassword, NoSeed, 0, "", TRUE, [err |-> nil, out |-> NoOut])
Snapshot(ws, idx, dk) == [wallets |-> ws, index |-> idx, disk |-> dk]
NoPre == Snapshot(EmptyMap, EmptyMap, EmptyMap)

\* One call of a Service method; a caller calls (ret = Idle) when it has finished
\* with the result of its previous call.
NoSnap == [id |-> "", password |-> NoPassword, w |-> NoWallet]

Do(r, rt) ==
  /\ pre' = Snapshot(wallets, firstAddrIDMap, disk)
  /\ snap' = IF rt.op = "EncryptWallet" /\ rt.err = nil
             THEN [id |-> rt.id, password |-> rt.password, w |-> wallets[rt.id]]
             ELSE IF rt.op = "DecryptWallet" THEN snap ELSE NoSnap
  /\ wallets' = r.wallets
  /\ firstAddrIDMap' = r.index
  /\ disk' = r.disk
  /\ held' = r.h
  /\ ret' = rt
  /\ UNCHANGED <<enableWalletAPI, enableSeedAPI>>
  /\ UNCHANGED <<concVars, boot>>

\* The options and balance getters the callers pass to CreateWallet.
CreateOptions ==
  { [seed |-> sd, label |-> "l1", encrypt |-> en, password |-> pw,
     cryptoType |-> cryptoType, now |-> CreateTime, scanN |-> sn] :
      sd \in Seeds, en \in BOOLEAN, pw \in {NoPassword, LockPassword}, sn \in {1, MaxScan} }
BalanceGetters ==
  { [funded |-> {}, err |-> FALSE],
    [funded |-> 0..(MaxScan - 1), err |-> FALSE],
    [funded |-> {}, err |-> TRUE] }

\* The disk fails (saveOK false) only under a call that gets to its save: r is
\* what the call returns when the disk works.
SaveReached(saveOK, r) == saveOK \/ r.err = nil

\* the wallet wltID, if stored, can take k more entries within MaxEntries
CanGrow(wltID, k) ==
  wltID \in DOMAIN wallets => Len(wallets[wltID].entries) + k <= MaxEntries
CanApply(wltID, f) == f = "genAddr" => CanGrow(wltID, 1)

\* generateUniqueWalletFilename: a fresh name no stored wallet has
CallCreateWallet ==
  /\ ret = Idle
  /\ \E wltName \in WalletIDs \cup {""}, gen \in WalletIDs, options \in CreateOptions,
        bg \in BalanceGetters, saveOK \in BOOLEAN :
       /\ ~options.encrypt => options.password = NoPassword
       /\ options.scanN = 1 => ~bg.err /\ bg.funded = {}
       /\ IF wltName = "" /\ enableWalletAPI THEN gen \notin DOMAIN wallets
          ELSE gen = CHOOSE x \in WalletIDs : TRUE
       /\ LET name == IF wltName = "" /\ enableWalletAPI THEN gen ELSE wltName
              r == CreateWallet(name, options, bg, saveOK)
          IN /\ SaveReached(saveOK, CreateWallet(name, options, bg, TRUE))
             /\ Do(r, [Ret("CreateWallet", name, options.password, options.seed,
                        options.scanN, "", saveOK, r)
                      EXCEPT !.x = [encrypt |-> options.encrypt, bgErr |-> bg.err]])

CallEncryptWallet ==
  /\ ret = Idle
  /\ \E wltID \in WalletIDs, password \in {LockPassword, NoPassword}, saveOK \in BOOLEAN :
       /\ SaveReached(saveOK, EncryptWallet(wltID, password, TRUE))
       /\ LET r == EncryptWallet(wltID, password, saveOK)
          IN Do(r, Ret("EncryptWallet", wltID, password, NoSeed, 0, "", saveOK, r))

CallDecryptWallet ==
  /\ ret = Idle
  /\ \E wltID \in WalletIDs, password \in Passwords \cup {NoPassword}, saveOK \in BOOLEAN :
       /\ SaveReached(saveOK, DecryptWallet(wltID, password, TRUE))
       /\ LET r == DecryptWallet(wltID, password, saveOK)
          IN Do(r, Ret("DecryptWallet", wltID, password, NoSeed, 0, "", saveOK, r))

CallNewAddresses ==
  /\ ret = Idle
  /\ \E wltID \in WalletIDs, password \in Passwords \cup {NoPassword}, num \in 0..MaxNum,
        saveOK \in BOOLEAN :
       /\ CanGrow(wltID, num)
       /\ SaveReached(saveOK, NewAddresses(wltID, password, num, TRUE))
       /\ LET r == NewAddresses(wltID, password, num, saveOK)
          IN Do(r, Ret("NewAddresses", wltID, password, NoSeed, num, "", saveOK, r))

CallGetSkycoinAddresses ==
  /\ ret = Idle
  /\ \E wltID \in WalletIDs :
       LET r == GetSkycoinAddresses(wltID)
       IN Do(r, Ret("GetSkycoinAddresses", wltID, NoPassword, NoSeed, 0, "", TRUE, r))

CallGetWallet ==
  /\ ret = Idle
  /\ \E wltID \in WalletIDs :
       LET r == GetWallet(wltID)
       IN Do(r, Ret("GetWallet", wltID, NoPassword, NoSeed, 0, "", TRUE, r))

CallGetWallets ==
  /\ ret = Idle
  /\ \E keep \in WalletIDs :
       LET r == GetWallets(keep)
       IN Do(r, Ret("GetWallets", keep, NoPassword, NoSeed, 0, "", TRUE, r))

CallCreateTransaction ==
  /\ ret = Idle
  /\ \E wltID \in WalletIDs, password \in Passwords \cup {NoPassword}, valid \in BOOLEAN,
        txOK \in BOOLEAN :
       /\ ~valid => txOK
       /\ LET r == CreateTransaction([valid |-> valid, id |-> wltID,
                                       password |-> password], txOK)
          IN Do(r, Ret("CreateTransaction", wltID, password, NoSeed, 0,
                    IF ~valid THEN "invalid" ELSE IF txOK THEN "valid" ELSE "unfunded",
                    TRUE, r))

CallUpdateWalletLabel ==
  /\ ret = Idle
  /\ \E wltID \in WalletIDs, label \in Labels, saveOK \in BOOLEAN :
       /\ SaveReached(saveOK, UpdateWalletLabel(wltID, label, TRUE))
       /\ LET r == UpdateWalletLabel(wltID, label, saveOK)
          IN Do(r, Ret("UpdateWalletLabel", wltID, NoPassword, NoSeed, 0, label, saveOK, r))

CallRemove ==
  /\ ret = Idle
  /\ \E wltID \in WalletIDs :
       LET r == Remove(wltID)
       IN Do(r, Ret("Remove", wltID, NoPassword, NoSeed, 0, "", TRUE, r))

CallGetWalletSeed ==
  /\ ret = Idle
  /\ \E wltID \in WalletIDs, password \in Passwords \cup {NoPassword} :
       LET r == GetWalletSeed(wltID, password)
       IN Do(r, Ret("GetWalletSeed", wltID, password, NoSeed, 0, "", TRUE, r))

CallUpdateSecrets ==
  /\ ret = Idle
  /\ \E wltID \in WalletIDs, password \in Passwords \cup {NoPassword}, f \in Callbacks,
        saveOK \in BOOLEAN :
       /\ CanApply(wltID, f)
       /\ SaveReached(saveOK, UpdateSecrets(wltID, password, f, TRUE))
       /\ LET r == UpdateSecrets(wltID, password, f, saveOK)
          IN Do(r, Ret("UpdateSecrets", wltID, password, NoSeed, 0, f, saveOK, r))

CallUpdate ==
  /\ ret = Idle
  /\ \E wltID \in WalletIDs, f \in Callbacks, saveOK \in BOOLEAN :
       /\ CanApply(wltID, f)
       /\ SaveReached(saveOK, Update(wltID, f, TRUE))
       /\ LET r == Update(wltID, f, saveOK)
          IN Do(r, Ret("Update", wltID, NoPassword, NoSeed, 0, f, saveOK, r))

CallViewSecrets ==
  /\ ret = Idle
  /\ \E wltID \in WalletIDs, password \in Passwords \cup {NoPassword}, f \in Callbacks :
       /\ CanApply(wltID, f)
       /\ LET r == ViewSecrets(wltID, password, f)
          IN Do(r, Ret("ViewSecrets", wltID, password, NoSeed, 0, f, TRUE, r))

CallView ==
  /\ ret = Idle
  /\ \E wltID \in WalletIDs, f \in Callbacks :
       /\ CanApply(wltID, f)
       /\ LET r == View(wltID, f)
          IN Do(r, Ret("View", wltID, NoPassword, NoSeed, 0, f, TRUE, r))

CallRecoverWallet ==
  /\ ret = Idle
  /\ \E wltName \in WalletIDs, seed \in Seeds, password \in {NoPassword, LockPassword},
        saveOK \in BOOLEAN :
       /\ SaveReached(saveOK, RecoverWallet(wltName, seed, password, RecoverTime, TRUE))
       /\ LET r == RecoverWallet(wltName, seed, password, RecoverTime, saveOK)
          IN Do(r, Ret("RecoverWallet", wltName, password, seed, 0, "", saveOK, r))

\* The caller changes the Wallet object it was left with, outside the Service.
CallerMutate ==
  /\ held # NoHandle
  /\ ret.op # "CallerMutate"
  /\ LET h == Handle([held.w EXCEPT !.label = "mutated"], held.ref)
     IN /\ wallets' = WriteThrough(wallets, h)
        /\ held' = h
        /\ pre' = Snapshot(wallets, firstAddrIDMap, disk)
        /\ ret' = [Idle EXCEPT !.op = "CallerMutate", !.id = held.w.id, !.f = ret.op]
        /\ UNCHANGED <<firstAddrIDMap, disk, enableWalletAPI, enableSeedAPI, snap>>
        /\ UNCHANGED <<concVars, boot>>

\* The caller is done with the result of its call.
CallerDone ==
  /\ ret # Idle
  /\ ret' = Idle
  /\ held' = NoHandle
  /\ pre' = NoPre
  /\ UNCHANGED <<wallets, firstAddrIDMap, disk, enableWalletAPI, enableSeedAPI, snap>>
  /\ UNCHANGED <<concVars, boot>>

\* ------------------------------------------------------------ the process
\* A file that was written in part only.
Partial == [NoWallet EXCEPT !.type = "partial"]
NoPending == [wallets |-> EmptyMap, index |-> EmptyMap]
\* boot.up: "down" (not started, or crashed), "running", "failed" (NewService
\* returned an error). boot.step: where the save in progress is. boot.prev and
\* boot.new: the wallet files before the save in progress began, and the wallet
\* that save writes.
Boot(up, step, tmp, pending, prev, new) ==
  [up |-> up, step |-> step, tmp |-> tmp, pending |-> pending, prev |-> prev,
   new |-> new]
BootIdle == Boot("running", "none", EmptyMap, NoPending, EmptyMap, NoWallet)

\* NewService on an empty wallet directory, with either setting of the flags.
\* the concurrent callers, none of them in a call
Threads == {"t1", "t2"}
NoThread == ""
NoLoc ==
  [op |-> "", id |-> "", password |-> NoPassword, num |-> 0, h |-> NoHandle,
   err |-> nil]
ConcIdle ==
  /\ mu = [writer |-> NoThread, readers |-> {}]
  /\ pc = [t \in Threads |-> "idle"]
  /\ loc = [t \in Threads |-> NoLoc]
  /\ ghost = [granted |-> 0, issued |-> 0, overlap |-> FALSE]

Init ==
  /\ wallets = EmptyMap
  /\ firstAddrIDMap = EmptyMap
  /\ disk = EmptyMap
  /\ enableWalletAPI \in BOOLEAN
  /\ enableSeedAPI \in BOOLEAN
  /\ held = NoHandle
  /\ ret = Idle
  /\ pre = NoPre
  /\ snap = NoSnap
  /\ ConcIdle
  /\ boot = BootIdle

\* ---------------------------------------- the methods, called concurrently
\* The lock each method takes on entry: serv.RLock() in the read methods,
\* serv.Lock() in the others.
LockKindAllShared(op) == "R"

LockKind(op) ==
  IF op \in {"GetSkycoinAddresses", "GetWallet", "GetWallets", "CreateTransaction",
             "GetWalletSeed", "ViewSecrets", "View"}
  THEN "R" ELSE "W"

\* sync.RWMutex
CanLock(kind) ==
  IF kind = "W" THEN mu.writer = NoThread /\ mu.readers = {}
  ELSE mu.writer = NoThread
Acquire(t, kind) ==
  IF kind = "W" THEN [mu EXCEPT !.writer = t]
  ELSE [mu EXCEPT !.readers = mu.readers \cup {t}]
Release(t) ==
  [writer |-> IF mu.writer = t THEN NoThread ELSE mu.writer,
   readers |-> mu.readers \ {t}]

InMethod(t) == pc[t] \in {"body", "save", "set", "unlock"}

\* A caller calls NewAddresses or CreateTransaction; the callers together ask
\* for at most MaxAdded addresses.
ConcCall(t) ==
  /\ pc[t] = "idle"
  /\ \E op \in {"NewAddresses", "CreateTransaction"}, wltID \in WalletIDs,
        num \in 0..MaxNum :
       /\ op = "CreateTransaction" => num = 0
       /\ ghost.issued + num <= MaxAdded
       /\ loc' = [loc EXCEPT ![t] = [NoLoc EXCEPT !.op = op, !.id = wltID, !.num = num]]
       /\ ghost' = [ghost EXCEPT
                      !.issued = @ + num,
                      !.overlap = @ \/ ( /\ op = "NewAddresses" /\ num > 0
                                         /\ \E u \in Threads \ {t} :
                                              /\ pc[u] # "idle"
                                              /\ loc[u].op = "NewAddresses"
                                              /\ loc[u].id = wltID
                                              /\ loc[u].num > 0 )]
  /\ pc' = [pc EXCEPT ![t] = "lock"]
  /\ UNCHANGED <<wallets, firstAddrIDMap, disk, enableWalletAPI, enableSeedAPI, mu>>
  /\ UNCHANGED <<seqVars, boot>>

\* serv.Lock() / serv.RLock()
ConcLock(t) ==
  /\ pc[t] = "lock"
  /\ CanLock(LockKind(loc[t].op))
  /\ mu' = Acquire(t, LockKind(loc[t].op))
  /\ pc' = [pc EXCEPT ![t] = "body"]
  /\ UNCHANGED <<wallets, firstAddrIDMap, disk, enableWalletAPI, enableSeedAPI, loc, ghost>>
  /\ UNCHANGED <<seqVars, boot>>

\* NewAddresses up to the save: the flag, getWallet, the addresses generated on
\* the clone
ConcNewAddressesBody(t) ==
  /\ pc[t] = "body" /\ loc[t].op = "NewAddresses"
  /\ LET g == getWallet(wallets, loc[t].id)
         f == GenerateOn(g.h.w, loc[t].password, loc[t].num)
         err == IF ~enableWalletAPI THEN ErrWalletAPIDisabled
                ELSE IF g.err # nil THEN g.err
                ELSE f.err
         h == Handle(f.w, g.h.ref)
     IN /\ loc' = [loc EXCEPT ![t].err = err,
                              ![t].h = IF err = nil THEN h ELSE NoHandle]
        /\ wallets' = IF enableWalletAPI /\ g.err = nil THEN WriteThrough(wallets, h)
                      ELSE wallets
        /\ pc' = [pc EXCEPT ![t] = IF err = nil THEN "save" ELSE "unlock"]
  /\ UNCHANGED <<firstAddrIDMap, disk, enableWalletAPI, enableSeedAPI, mu, ghost>>
  /\ UNCHANGED <<seqVars, boot>>

\* w.Save(serv.walletDirectory)
ConcSave(t) ==
  /\ pc[t] = "save"
  /\ \E saveOK \in BOOLEAN :
       LET sv == Save(disk, loc[t].h.w, saveOK)
       IN /\ disk' = sv.disk
          /\ loc' = [loc EXCEPT ![t].err = sv.err]
          /\ pc' = [pc EXCEPT ![t] = IF sv.err = nil THEN "set" ELSE "unlock"]
          /\ ghost' = [ghost EXCEPT !.issued = IF sv.err = nil THEN @ ELSE @ - loc[t].num]
  /\ UNCHANGED <<wallets, firstAddrIDMap, enableWalletAPI, enableSeedAPI, mu>>
  /\ UNCHANGED <<seqVars, boot>>

\* serv.wallets.set(w)
ConcSet(t) ==
  /\ pc[t] = "set"
  /\ wallets' = set(wallets, loc[t].h).wallets
  /\ ghost' = [ghost EXCEPT !.granted = @ + loc[t].num]
  /\ pc' = [pc EXCEPT ![t] = "unlock"]
  /\ UNCHANGED <<firstAddrIDMap, disk, enableWalletAPI, enableSeedAPI, mu, loc>>
  /\ UNCHANGED <<seqVars, boot>>

\* CreateTransaction between RLock and RUnlock: it reads the map once
ConcCreateTransactionBody(t) ==
  /\ pc[t] = "body" /\ loc[t].op = "CreateTransaction"
  /\ \E txOK \in BOOLEAN :
       LET r == CreateTransaction([valid |-> TRUE, id |-> loc[t].id,
                                   password |-> loc[t].password], txOK)
       IN loc' = [loc EXCEPT ![t].err = r.err,
                             ![t].h = getWallet(wallets, loc[t].id).h]
  /\ pc' = [pc EXCEPT ![t] = "unlock"]
  /\ UNCHANGED <<wallets, firstAddrIDMap, disk, enableWalletAPI, enableSeedAPI, mu, ghost>>
  /\ UNCHANGED <<seqVars, boot>>

\* the deferred serv.Unlock() / serv.RUnlock(), and the return
ConcUnlock(t) ==
  /\ pc[t] = "unlock"
  /\ mu' = Release(t)
  /\ pc' = [pc EXCEPT ![t] = "idle"]
  /\ loc' = [loc EXCEPT ![t] = NoLoc]
  /\ ghost' = IF loc[t].op = "NewAddresses" /\ loc[t].err \notin {nil, ErrSave}
              THEN [ghost EXCEPT !.issued = @ - loc[t].num] ELSE ghost
  /\ UNCHANGED <<wallets, firstAddrIDMap, disk, enableWalletAPI, enableSeedAPI>>
  /\ UNCHANGED <<seqVars, boot>>

\* A Service that holds one plaintext wallet of one entry, saved in its file
\* (the Service after one CreateWallet), and two callers about to call.
ConcWallet ==
  NewWallet("a.wlt",
            [seed |-> "s1", label |-> "l1", encrypt |-> FALSE, password |-> NoPassword,
             cryptoType |-> cryptoType, now |-> CreateTime, scanN |-> 1], 1).w

InitConc ==
  /\ wallets = Put(EmptyMap, "a.wlt", ConcWallet)
  /\ firstAddrIDMap = Put(EmptyMap, FirstAddress(ConcWallet), "a.wlt")
  /\ disk = Put(EmptyMap, "a.wlt", ConcWallet)
  /\ enableWalletAPI = TRUE
  /\ enableSeedAPI \in BOOLEAN
  /\ held = NoHandle
  /\ ret = Idle
  /\ pre = NoPre
  /\ snap = NoSnap
  /\ ConcIdle
  /\ boot = BootIdle

NextConc ==
  \E t \in Threads :
    \/ ConcCall(t)
    \/ ConcLock(t)
    \/ ConcNewAddressesBody(t)
    \/ ConcSave(t)
    \/ ConcSet(t)
    \/ ConcCreateTransactionBody(t)
    \/ ConcUnlock(t)

SpecConc == InitConc /\ [][NextConc]_vars

\* ------------------------------------------------ one wallet, grown
\* NewAddresses, called for up to MaxGrowNum addresses at a time
CallNewAddressesMany ==
  /\ ret = Idle
  /\ \E wltID \in WalletIDs, password \in Passwords \cup {NoPassword},
        num \in 0..MaxGrowNum, saveOK \in BOOLEAN :
       /\ wltID \in DOMAIN wallets =>
            Len(wallets[wltID].entries) + num <= MaxGrowEntries
       /\ SaveReached(saveOK, NewAddresses(wltID, password, num, TRUE))
       /\ LET r == NewAddresses(wltID, password, num, saveOK)
          IN Do(r, Ret("NewAddresses", wltID, password, NoSeed, num, "", saveOK, r))

\* The Service after one CreateWallet (InitConc), then called by one caller that
\* grows, encrypts and decrypts the wallet.
NextGrow ==
  \/ CallNewAddressesMany
  \/ CallEncryptWallet
  \/ CallDecryptWallet
  \/ CallerDone

SpecGrow == InitConc /\ [][NextGrow]_vars

\* ------------------------------------------- startup, saves and crashes
ErrLoadWallets == "ErrLoadWallets"
ErrDuplicateWallet == "ErrDuplicateWallet"
ErrEmptyWallet == "ErrEmptyWallet"

\* LoadWallets: every wallet file of the directory, or an error when one of
\* them cannot be parsed.
LoadWallets(dir) ==
  IF \E id \in DOMAIN dir : dir[id] = Partial
  THEN [err |-> ErrLoadWallets, wallets |-> EmptyMap]
  ELSE [err |-> nil, wallets |-> dir]

\* Wallets.containsDuplicate, Wallets.containsEmpty
containsDuplicate(ws) ==
  \E a \in DOMAIN ws, b \in DOMAIN ws :
    /\ a # b
    /\ Len(ws[a].entries) > 0 /\ Len(ws[b].entries) > 0
    /\ FirstAddress(ws[a]) = FirstAddress(ws[b])
containsEmpty(ws) == \E id \in DOMAIN ws : Len(ws[id].entries) = 0

\* Service.setWallets: the map, and the index filled from it.
setWallets(ws) ==
  [wallets |-> ws,
   index |-> [a \in FirstAddrsOf(ws) |->
                CHOOSE id \in DOMAIN ws : FirstAddress(ws[id]) = a]]

NoService(err) == [err |-> err, wallets |-> EmptyMap, index |-> EmptyMap]

\* NewService that does not look for duplicate wallets
NewServiceNoDuplicateCheck(enabled, dir) ==
  IF ~enabled THEN NoService(nil)
  ELSE LET w == LoadWallets(dir) IN
  IF w.err # nil THEN NoService(w.err)
  ELSE IF containsEmpty(w.wallets) THEN NoService(ErrEmptyWallet)
  ELSE [err |-> nil] @@ setWallets(w.wallets)

NewService(enabled, dir) ==
  IF ~enabled THEN NoService(nil)
  ELSE LET w == LoadWallets(dir) IN
  IF w.err # nil THEN NoService(w.err)
  ELSE IF containsDuplicate(w.wallets) THEN NoService(ErrDuplicateWallet)
  ELSE IF containsEmpty(w.wallets) THEN NoService(ErrEmptyWallet)
  ELSE [err |-> nil] @@ setWallets(w.wallets)

\* Wallet.Save writing the wallet file itself, in place
SaveStepInPlace(dk, tp, w, step) ==
  CASE step = "write" -> [disk |-> Put(dk, w.id, Partial), tmp |-> tp]
    [] step = "finish" -> [disk |-> Put(dk, w.id, w), tmp |-> tp]
    [] step = "rename" -> [disk |-> dk, tmp |-> tp]

\* Wallet.Save, step by step: the temporary file is written, part of it first,
\* and then takes the place of the wallet file.
SaveStep(dk, tp, w, step) ==
  CASE step = "write" -> [disk |-> dk, tmp |-> Put(tp, w.id, Partial)]
    [] step = "finish" -> [disk |-> dk, tmp |-> Put(tp, w.id, w)]
    [] step = "rename" -> [disk |-> Put(dk, w.id, tp[w.id]), tmp |-> Del(tp, w.id)]

\* The wallet files found in the directory at startup: per name none, or a plain
\* wallet of no or one entry.
DirFiles(id) ==
  { NewWallet(id, [seed |-> sd, label |-> "l1", encrypt |-> FALSE,
                   password |-> NoPassword, cryptoType |-> cryptoType,
                   now |-> CreateTime, scanN |-> 1], n).w :
      sd \in Seeds, n \in 0..1 }
Dirs ==
  { d \in UNION { [ids -> UNION { DirFiles(id) : id \in WalletIDs }] :
                    ids \in SUBSET WalletIDs } :
      \A id \in DOMAIN d : d[id].id = id }

Started(err) == [Idle EXCEPT !.op = "NewService", !.err = err]

\* NewService(c) on the wallet directory as it is.
Start ==
  /\ boot.up = "down"
  /\ LET r == NewService(enableWalletAPI, disk)
     IN /\ wallets' = r.wallets
        /\ firstAddrIDMap' = r.index
        /\ boot' = [boot EXCEPT !.up = IF r.err = nil THEN "running" ELSE "failed"]
        /\ ret' = Started(r.err)
  /\ UNCHANGED <<disk, enableWalletAPI, enableSeedAPI, held, pre, snap, concVars>>

\* A call that succeeds. A call that saves has the lock and is about to save:
\* what it will set in the map and the index waits in boot.pending.
BootCall(r, wltID, saves) ==
  /\ boot.up = "running" /\ boot.step = "none"
  /\ r.err = nil
  /\ IF saves
     THEN /\ boot' = [boot EXCEPT !.step = "begin",
                                  !.pending = [wallets |-> r.wallets, index |-> r.index],
                                  !.prev = disk,
                                  !.new = r.disk[wltID]]
          /\ UNCHANGED <<wallets, firstAddrIDMap>>
     ELSE /\ wallets' = r.wallets
          /\ firstAddrIDMap' = r.index
          /\ boot' = [boot EXCEPT !.prev = disk, !.new = NoWallet]
  /\ ret' = Idle
  /\ UNCHANGED <<disk, enableWalletAPI, enableSeedAPI, held, pre, snap, concVars>>

BootCreateWallet ==
  \E wltName \in WalletIDs, sd \in Seeds :
    BootCall(CreateWallet(wltName,
                          [seed |-> sd, label |-> "l1", encrypt |-> FALSE,
                           password |-> NoPassword, cryptoType |-> cryptoType,
                           now |-> CreateTime, scanN |-> 1],
                          [funded |-> {}, err |-> FALSE], TRUE),
             wltName, TRUE)

BootEncryptWallet ==
  \E wltID \in WalletIDs : BootCall(EncryptWallet(wltID, LockPassword, TRUE), wltID, TRUE)

BootNewAddresses ==
  \E wltID \in WalletIDs, password \in {NoPassword, LockPassword} :
    /\ CanGrow(wltID, 1)
    /\ BootCall(NewAddresses(wltID, password, 1, TRUE), wltID, TRUE)

BootRemove ==
  \E wltID \in WalletIDs :
    wltID \in DOMAIN wallets /\ BootCall(Remove(wltID), wltID, FALSE)

\* The steps of the save in progress.
BootSave(from, step, to) ==
  /\ boot.up = "running" /\ boot.step = from
  /\ LET sv == SaveStep(disk, boot.tmp, boot.new, step)
     IN /\ disk' = sv.disk
        /\ boot' = [boot EXCEPT !.step = to, !.tmp = sv.tmp]
  /\ UNCHANGED <<wallets, firstAddrIDMap, enableWalletAPI, enableSeedAPI, seqVars, concVars>>

SaveWrite == BootSave("begin", "write", "writing")
SaveFinish == BootSave("writing", "finish", "written")
SaveRename == BootSave("written", "rename", "saved")

\* The save returned: the call sets the wallet in the map and returns.
Publish ==
  /\ boot.up = "running" /\ boot.step = "saved"
  /\ wallets' = boot.pending.wallets
  /\ firstAddrIDMap' = boot.pending.index
  /\ boot' = [boot EXCEPT !.step = "none", !.pending = NoPending,
                          !.prev = disk, !.new = NoWallet]
  /\ UNCHANGED <<disk, enableWalletAPI, enableSeedAPI, seqVars, concVars>>

\* The process stops where it is: its memory is gone, the directory stays.
Crash ==
  /\ boot.up = "running"
  /\ wallets' = EmptyMap
  /\ firstAddrIDMap' = EmptyMap
  /\ boot' = [boot EXCEPT !.up = "down", !.step = "none", !.pending = NoPending]
  /\ ret' = Idle
  /\ UNCHANGED <<disk, enableWalletAPI, enableSeedAPI, held, pre, snap, concVars>>

InitBoot ==
  /\ wallets = EmptyMap
  /\ firstAddrIDMap = EmptyMap
  /\ disk \in Dirs
  /\ enableWalletAPI \in BOOLEAN
  /\ enableSeedAPI = FALSE
  /\ held = NoHandle
  /\ ret = Idle
  /\ pre = NoPre
  /\ snap = NoSnap
  /\ ConcIdle
  /\ boot = Boot("down", "none", EmptyMap, NoPending, disk, NoWallet)

NextBoot ==
  \/ Start
  \/ BootCreateWallet
  \/ BootEncryptWallet
  \/ BootNewAddresses
  \/ BootRemove
  \/ SaveWrite
  \/ SaveFinish
  \/ SaveRename
  \/ Publish
  \/ Crash

SpecBoot == InitBoot /\ [][NextBoot]_vars

\* ------------------------------------- wallets loaded at startup, recovered
\* any wallet type that is not WalletTypeDeterministic
WalletTypeOther == "other"

\* The wallet files a Service may find at startup: per name none, or a wallet of
\* either type, plain or locked with LockPassword, of one entry or more.
LoadedFiles(id) ==
  { [NewWallet(id, [seed |-> sd, label |-> "l1", encrypt |-> en,
                    password |-> IF en THEN LockPassword ELSE NoPassword,
                    cryptoType |-> cryptoType, now |-> CreateTime, scanN |-> 1],
               n).w EXCEPT !.type = tp] :
      sd \in Seeds, en \in BOOLEAN, n \in 1..MaxEntries,
      tp \in {WalletTypeDeterministic, WalletTypeOther} }
LoadedDirs ==
  { d \in UNION { [ids -> UNION { LoadedFiles(id) : id \in WalletIDs }] :
                    ids \in SUBSET WalletIDs } :
      \A id \in DOMAIN d : d[id].id = id }

\* The Service that NewService returned on such a directory.
InitLoaded ==
  /\ disk \in LoadedDirs
  /\ enableWalletAPI \in BOOLEAN
  /\ enableSeedAPI = FALSE
  /\ NewService(enableWalletAPI, disk).err = nil
  /\ wallets = NewService(enableWalletAPI, disk).wallets
  /\ firstAddrIDMap = NewService(enableWalletAPI, disk).index
  /\ held = NoHandle
  /\ ret = Idle
  /\ pre = NoPre
  /\ snap = NoSnap
  /\ ConcIdle
  /\ boot = BootIdle

\* One caller that recovers wallets of the Service.
NextRecover ==
  \/ CallRecoverWallet
  \/ CallerDone

SpecRecover == InitLoaded /\ [][NextRecover]_vars

\* ------------------------------------------------ wallets created, scanned
\* Every balance getter over the first MaxScanAhead addresses of a seed: the
\* indices whose address has a balance, or a getter that fails.
ScanOracles ==
  { [funded |-> s, err |-> FALSE] : s \in SUBSET (0..(MaxScanAhead - 1)) }
    \cup { [funded |-> {}, err |-> TRUE] }

\* CreateWallet of a plain wallet with a scan range of 0..MaxScanAhead
CallCreateWalletScan ==
  /\ ret = Idle
  /\ \E wltName \in WalletIDs, sd \in Seeds, scanN \in 0..MaxScanAhead, bg \in ScanOracles :
       LET options == [seed |-> sd, label |-> "l1", encrypt |-> FALSE,
                       password |-> NoPassword, cryptoType |-> cryptoType,
                       now |-> CreateTime, scanN |-> scanN]
           r == CreateWallet(wltName, options, bg, TRUE)
       IN Do(r, [Ret("CreateWallet", wltName, NoPassword, sd, scanN, "", TRUE, r)
                 EXCEPT !.x = [encrypt |-> FALSE, bgErr |-> bg.err,
                               funded |-> bg.funded]])

\* One caller that creates wallets and removes them.
NextScan ==
  \/ CallCreateWalletScan
  \/ CallRemove
  \/ CallerDone

SpecScan == Init /\ [][NextScan]_vars

\* ------------------------------------------- the encryptWallet command
ErrLoad == "ErrLoad"
ErrReadPassword == "ErrReadPassword"
ErrAbs == "ErrAbs"
ErrCryptoType == "ErrCryptoType"
ErrSaveWalletFailed == "save wallet failed"
\* the values of the -x flag: the two crypto types, and a string that is neither
CryptoTypeSha256Xor == "sha256-xor"
CryptoTypeFlags == {cryptoType, CryptoTypeSha256Xor, "unknown"}
\* the kind of the error encryptWallet returns: none, one of the two wrapper
\* types, or any other error type
WalletLoadError == "WalletLoadError"
WalletSaveError == "WalletSaveError"
OtherError == "error"
NotCalled == "not called"

\* wallet.Load: the wallet of the file, or an error when there is no such file
\* or it cannot be parsed.
Load(dk, walletFile) ==
  IF walletFile \notin DOMAIN dk \/ dk[walletFile] = Partial
  THEN [err |-> ErrLoad, w |-> NoWallet]
  ELSE [err |-> nil, w |-> dk[walletFile]]

\* what readPasswordFromTerminal returns: a password, possibly empty, or an error
Terminals ==
  { [password |-> pw, err |-> FALSE] : pw \in {LockPassword, NoPassword} }
    \cup { [password |-> NoPassword, err |-> TRUE] }

CliRes(kind, err, dk, w) == [kind |-> kind, err |-> err, disk |-> dk, w |-> w]

\* encryptWallet(walletFile, password, cryptoType)
encryptWallet(walletFile, password, ct, term, absOK, saveOK) ==
  LET ld == Load(disk, walletFile) IN
  IF ld.err # nil THEN CliRes(WalletLoadError, ld.err, disk, NoWallet)
  ELSE IF ld.w.encrypted THEN CliRes(OtherError, ErrWalletEncrypted, disk, NoWallet)
  ELSE IF password = NoPassword /\ term.err
  THEN CliRes(OtherError, ErrReadPassword, disk, NoWallet)
  ELSE LET l == Lock(ld.w, IF password = NoPassword THEN term.password ELSE password, ct)
       IN IF l.err # nil THEN CliRes(OtherError, l.err, disk, NoWallet)
          ELSE IF ~absOK THEN CliRes(OtherError, ErrAbs, disk, NoWallet)
          ELSE LET sv == Save(disk, l.w, saveOK) IN
               IF sv.err # nil THEN CliRes(WalletLoadError, sv.err, disk, NoWallet)
               ELSE CliRes("nil", nil, sv.disk, l.w)

\* The command's Action from the crypto type on: what it returns, and what it
\* shows (the error with the help text, or the wallet as JSON).
CmdOut(returned, shown) == [returned |-> returned, shown |-> shown]
encryptWalletCmd(flag, r) ==
  IF flag \notin {cryptoType, CryptoTypeSha256Xor} THEN CmdOut(nil, "help")
  ELSE CASE r.kind = "nil" -> CmdOut(nil, "json")
         [] r.kind = WalletLoadError -> CmdOut(nil, "help")
         [] r.kind = WalletSaveError -> CmdOut(ErrSaveWalletFailed, "")
         [] OTHER -> CmdOut(r.err, "")

\* The command is run on a wallet file.
RunEncryptWallet ==
  /\ ret = Idle
  /\ \E walletFile \in WalletIDs, password \in {NoPassword, LockPassword},
        flag \in CryptoTypeFlags, term \in Terminals, absOK \in BOOLEAN,
        saveOK \in BOOLEAN :
       LET called == flag \in {cryptoType, CryptoTypeSha256Xor}
           r == IF called
                THEN encryptWallet(walletFile, password, flag, term, absOK, saveOK)
                ELSE CliRes(NotCalled, ErrCryptoType, disk, NoWallet)
       IN /\ disk' = r.disk
          /\ held' = IF r.err = nil THEN Handle(r.w, Fresh) ELSE NoHandle
          /\ pre' = Snapshot(wallets, firstAddrIDMap, disk)
          /\ ret' = Ret("encryptWallet", walletFile, password, NoSeed, 0, r.kind, saveOK,
                        [err |-> r.err, out |-> encryptWalletCmd(flag, r)])
  /\ UNCHANGED <<wallets, firstAddrIDMap, enableWalletAPI, enableSeedAPI, snap>>
  /\ UNCHANGED <<concVars, boot>>

\* The wallet directory the command is run in: per name no file, a wallet file,
\* or a file that cannot be parsed. No Service is running.
CliDirs ==
  { d \in UNION { [ids -> UNION { LoadedFiles(id) : id \in WalletIDs } \cup {Partial}] :
                    ids \in SUBSET WalletIDs } :
      \A id \in DOMAIN d : d[id] = Partial \/ d[id].id = id }

InitCLI ==
  /\ wallets = EmptyMap
  /\ firstAddrIDMap = EmptyMap
  /\ disk \in CliDirs
  /\ enableWalletAPI = FALSE
  /\ enableSeedAPI = FALSE
  /\ held = NoHandle
  /\ ret = Idle
  /\ pre = NoPre
  /\ snap = NoSnap
  /\ ConcIdle
  /\ boot = Boot("down", "none", EmptyMap, NoPending, EmptyMap, NoWallet)

NextCLI ==
  \/ RunEncryptWallet
  \/ CallerDone

SpecCLI == InitCLI /\ [][NextCLI]_vars

Next ==
  \/ CallCreateWallet
  \/ CallEncryptWallet
  \/ CallDecryptWallet
  \/ CallNewAddresses
  \/ CallGetSkycoinAddresses
  \/ CallGetWallet
  \/ CallGetWallets
  \/ CallCreateTransaction
  \/ CallUpdateWalletLabel
  \/ CallRemove
  \/ CallGetWalletSeed
  \/ CallUpdateSecrets
  \/ CallUpdate
  \/ CallViewSecrets
  \/ CallView
  \/ CallRecoverWallet
  \/ CallerMutate
  \/ CallerDone

Spec == Init /\ [][Next]_vars


\* ================================================================ claims
ServiceOps ==
  {"CreateWallet", "EncryptWallet", "DecryptWallet", "NewAddresses",
   "GetSkycoinAddresses", "GetWallet", "GetWallets", "CreateTransaction",
   "UpdateWalletLabel", "Remove", "GetWalletSeed", "UpdateSecrets", "Update",
   "ViewSecrets", "View", "RecoverWallet"}
\* the methods that save a wallet
SavingOps ==
  {"CreateWallet", "EncryptWallet", "DecryptWallet", "NewAddresses",
   "UpdateWalletLabel", "Update", "UpdateSecrets", "RecoverWallet"}
\* the methods that address one wallet by id
ByIdOps == ServiceOps \ {"CreateWallet", "GetWallets"}

SameStore == wallets = pre.wallets /\ firstAddrIDMap = pre.index
Unchanged == SameStore /\ disk = pre.disk
FirstAddrs(ws) == { FirstAddress(ws[id]) : id \in DOMAIN ws }
SeedFirstAddress(seed) == AddressFromPubKey(PubKey(seed, 0))

\* C1: in every reachable state no two wallets of the store have the same first
\* address.
C1_UniqueFirstAddress ==
  \A a \in DOMAIN wallets, b \in DOMAIN wallets :
    a # b => FirstAddress(wallets[a]) # FirstAddress(wallets[b])

\* two wallets are stored and the encrypted one was just recovered from its seed
C1_Witness ==
  /\ Cardinality(DOMAIN wallets) = 2
  /\ ret.op = "RecoverWallet" /\ ret.err = nil
  /\ ret.id \in DOMAIN wallets

\* C2 (as claimed): CreateWallet with a seed whose first address is the first
\* address of a stored wallet fails with ErrSeedUsed, and map, index and files
\* are unchanged.
C2_Original ==
  (ret.op = "CreateWallet" /\ SeedFirstAddress(ret.seed) \in FirstAddrs(pre.wallets))
    => ret.err = ErrSeedUsed /\ Unchanged

\* C2 (amended): such a CreateWallet always fails and leaves map, index and
\* files unchanged; the error is ErrSeedUsed unless building the wallet fails
\* first (the balance getter fails during the scan, or encryption is asked for
\* without a password), and then it is that error.
C2_SeedConflict ==
  (ret.op = "CreateWallet" /\ SeedFirstAddress(ret.seed) \in FirstAddrs(pre.wallets))
    => /\ Unchanged
       /\ ret.err = IF ret.num > 1 /\ ret.x.bgErr THEN ErrBalanceGetter
                    ELSE IF ret.x.encrypt /\ ret.password = NoPassword
                    THEN ErrMissingPassword
                    ELSE ErrSeedUsed

\* a CreateWallet under a free name was refused for its seed
C2_Witness ==
  /\ ret.op = "CreateWallet" /\ ret.err = ErrSeedUsed
  /\ ret.id \notin DOMAIN pre.wallets
  /\ SeedFirstAddress(ret.seed) \in FirstAddrs(pre.wallets)

\* C3: a mutating method called while saves fail returns an error (ErrSave when
\* it got as far as the save) and leaves the map and the index as they were; an
\* ErrSave is returned only then.
C3_SaveFailureLeavesMemory ==
  ret.op \in SavingOps =>
    /\ ~ret.saveOK => ret.err # nil /\ SameStore /\ disk = pre.disk
    /\ ret.err = ErrSave => ~ret.saveOK /\ SameStore

\* CreateWallet added the wallet, the save failed, the wallet was taken out again
C3_Witness ==
  /\ ret.op = "CreateWallet" /\ ret.err = ErrSave
  /\ ret.id \notin DOMAIN wallets
  /\ DOMAIN wallets # {}

C6_DisabledFirst ==
  (~enableWalletAPI /\ ret.op \in ServiceOps)
    => ret.err = ErrWalletAPIDisabled /\ Unchanged

\* a CreateTransaction with invalid parameters on a disabled Service
C6_Witness ==
  /\ ~enableWalletAPI /\ ~enableSeedAPI
  /\ ret.op = "CreateTransaction" /\ ret.f = "invalid"

\* C7 (as claimed): with the wallet API on, every method that addresses one
\* wallet fails with ErrWalletNotExist for an id that is not stored, and changes
\* nothing.
C7_NotFound ==
  ( /\ enableWalletAPI
    /\ ret.op \in ByIdOps
    /\ ret.id \notin DOMAIN pre.wallets
    /\ ret.op = "CreateTransaction" => ret.f # "invalid"
    /\ ret.op = "GetWalletSeed" => enableSeedAPI )
    => ret.err = ErrWalletNotExist /\ Unchanged

C9_AlreadyInState ==
  /\ ( /\ ret.op = "EncryptWallet"
       /\ ret.id \in DOMAIN pre.wallets
       /\ pre.wallets[ret.id].encrypted )
       => ret.err = ErrWalletEncrypted /\ Unchanged
  /\ ( /\ ret.op = "DecryptWallet"
       /\ ret.id \in DOMAIN pre.wallets
       /\ ~pre.wallets[ret.id].encrypted )
       => ret.err = ErrWalletNotEncrypted /\ Unchanged

\* EncryptWallet without a password on an encrypted wallet
C9_Witness ==
  /\ ret.op = "EncryptWallet" /\ ret.password = NoPassword
  /\ ret.id \in DOMAIN pre.wallets /\ pre.wallets[ret.id].encrypted

\* C10: a successful EncryptWallet leaves the stored wallet encrypted; a
\* successful DecryptWallet with the same password next leaves it plaintext, with
\* the seed and the entries it had before the EncryptWallet.
C10_LockUnlockRoundTrip ==
  /\ (ret.op = "EncryptWallet" /\ ret.err = nil) => wallets[ret.id].encrypted
  /\ ( /\ ret.op = "DecryptWallet" /\ ret.err = nil
       /\ snap.id = ret.id /\ snap.password = ret.password )
       => /\ ~wallets[ret.id].encrypted
          /\ wallets[ret.id].seed = snap.w.seed
          /\ wallets[ret.id].entries = snap.w.entries
          /\ wallets[ret.id] = [snap.w EXCEPT !.cryptoType = cryptoType]
          /\ disk[ret.id] = wallets[ret.id]

\* EncryptWallet then DecryptWallet succeeded on a wallet of several entries
C10_Witness ==
  /\ ret.op = "DecryptWallet" /\ ret.err = nil
  /\ snap.id = ret.id /\ snap.password = ret.password
  /\ Len(snap.w.entries) > 1 /\ snap.w.seed # NoSeed


\* C5: a caller inside a mutating method excludes every other caller from the
\* methods; the stored wallet always has its first entry plus the entries of the
\* NewAddresses calls that set it, in derivation order (no update is lost); and
\* when no call is in progress its file has the same content.
C5_AtomicOperations ==
  /\ \A t \in Threads, u \in Threads :
       (t # u /\ InMethod(t) /\ loc[t].op = "NewAddresses") => ~InMethod(u)
  /\ wallets["a.wlt"] = [ConcWallet EXCEPT !.entries = Entries("s1", 1 + ghost.granted)]
  /\ (\A t \in Threads : pc[t] = "idle") => disk["a.wlt"] = wallets["a.wlt"]

\* two NewAddresses calls on the same wallet, issued while the other was in
\* progress, have both returned, and the wallet has the entries of both
C5_Witness ==
  /\ ghost.overlap
  /\ ghost.granted = 2
  /\ \A t \in Threads : pc[t] = "idle"
  /\ Len(wallets["a.wlt"].entries) = 3

\* the methods that unlock a wallet with the caller's password
UnlockingOps ==
  {"DecryptWallet", "NewAddresses", "UpdateSecrets", "ViewSecrets", "GetWalletSeed",
   "CreateTransaction"}
\* the call got as far as the wallet ret.id, which was stored
Addressed ==
  /\ enableWalletAPI
  /\ ret.id \in DOMAIN pre.wallets
  /\ ret.op = "CreateTransaction" => ret.f # "invalid"
  /\ ret.op = "GetWalletSeed" => enableSeedAPI
\* the call gave a password, and not the one the stored wallet was locked with
WrongPassword ==
  /\ pre.wallets[ret.id].encrypted
  /\ ret.password # NoPassword
  /\ ret.password # pre.wallets[ret.id].secrets.key

\* C11: a method that unlocks an encrypted wallet, called with a password that is
\* not the one the wallet was locked with, returns ErrInvalidPassword, returns no
\* value, hands no wallet to a callback, and leaves map, index and files
\* unchanged (the wallet still encrypted).
C11_WrongPassword ==
  (ret.op \in UnlockingOps /\ Addressed /\ WrongPassword) =>
    /\ ret.err = ErrInvalidPassword
    /\ ret.out = NoOut
    /\ held = NoHandle
    /\ Unchanged
    /\ wallets[ret.id].encrypted /\ disk[ret.id].encrypted

\* UpdateSecrets was called with a wrong password on an encrypted wallet of two
\* entries
C11_Witness ==
  /\ ret.op = "UpdateSecrets" /\ Addressed /\ WrongPassword
  /\ ret.f = "setLabel"
  /\ Len(wallets[ret.id].entries) = 2

\* the methods that take the read lock
ReadOps ==
  {"CreateTransaction", "GetWalletSeed", "ViewSecrets", "View", "GetWallet",
   "GetWallets", "GetSkycoinAddresses"}

\* C12: CreateTransaction, GetWalletSeed, ViewSecrets, View, GetWallet, GetWallets
\* and GetSkycoinAddresses leave map, index and files unchanged whatever they
\* return and whatever the callback did; an encrypted wallet stays encrypted.
C12_ViewLeavesStore ==
  ret.op \in ReadOps =>
    /\ Unchanged
    /\ \A id \in DOMAIN pre.wallets :
         pre.wallets[id].encrypted => wallets[id].encrypted /\ disk[id].encrypted

\* ViewSecrets unlocked an encrypted wallet and its callback changed the
\* plaintext copy and then failed
C12_Witness ==
  /\ ret.op = "ViewSecrets" /\ ret.err = ErrCallback
  /\ ret.id \in DOMAIN pre.wallets /\ pre.wallets[ret.id].encrypted
  /\ held.w.label = "l2" /\ ~held.w.encrypted
  /\ wallets[ret.id].label = "l1"

\* the plaintext wallet that the call's callback leaves: the stored wallet before
\* the call, unlocked with the call's password, after the callback
Mutated ==
  LET u == Unlock(pre.wallets[ret.id], ret.password).w
  IN IF ret.op = "NewAddresses" THEN GenerateSkycoinAddresses(u, ret.num).w
     ELSE Apply(ret.f, u).w

\* C13: UpdateSecrets or NewAddresses on an encrypted stored wallet: when it
\* returns an error (from Unlock, the callback, the re-lock or the save) map,
\* index and files are unchanged and the wallet is still encrypted; when it
\* succeeds the stored wallet is encrypted, unlocks with the supplied password to
\* the wallet the callback left, unlocks with no other password, and its file
\* has the same content.
C13_GuardUpdate ==
  ( /\ ret.op \in {"UpdateSecrets", "NewAddresses"}
    /\ enableWalletAPI
    /\ ret.id \in DOMAIN pre.wallets
    /\ pre.wallets[ret.id].encrypted ) =>
    IF ret.err # nil
    THEN Unchanged /\ wallets[ret.id].encrypted /\ disk[ret.id].encrypted
    ELSE /\ wallets[ret.id].encrypted
         /\ Unlock(wallets[ret.id], ret.password) = [err |-> nil, w |-> Mutated]
         /\ \A p \in (Passwords \cup {NoPassword}) \ {ret.password} :
              Unlock(wallets[ret.id], p).err # nil
         /\ disk[ret.id] = wallets[ret.id]
         /\ \A id \in DOMAIN pre.wallets \ {ret.id} : wallets[id] = pre.wallets[id]
         /\ firstAddrIDMap = pre.index

\* UpdateSecrets unlocked an encrypted wallet, the callback locked the working
\* copy itself, and locking it again failed
C13_Witness ==
  /\ ret.op = "UpdateSecrets" /\ ret.f = "lockIt" /\ ret.err = ErrWalletEncrypted
  /\ ret.id \in DOMAIN pre.wallets /\ pre.wallets[ret.id].encrypted
  /\ ret.password = pre.wallets[ret.id].secrets.key

\* the seed a wallet's entries are derived from, locked away or not
SeedOf(w) == IF w.encrypted THEN w.secrets.seed ELSE w.seed

\* C14: a successful NewAddresses(id, password, n) leaves the stored wallet, plain
\* or encrypted, with its old entries followed by n new ones; it returns the n
\* new addresses in that order; they differ from the old addresses and from each
\* other; and entry i (counted from 0) has the address derived from (seed, i).
C14_NewAddressesCount ==
  (ret.op = "NewAddresses" /\ ret.err = nil) =>
    LET old == pre.wallets[ret.id]
        new == wallets[ret.id]
        n0 == Len(old.entries)
    IN /\ Len(new.entries) = n0 + ret.num
       /\ new.encrypted = old.encrypted
       /\ SeedOf(new) = SeedOf(old)
       /\ \A k \in 1..n0 : new.entries[k] = old.entries[k]
       /\ ret.out = [k \in 1..ret.num |-> new.entries[n0 + k].address]
       /\ \A k \in 1..ret.num :
            /\ \A j \in 1..n0 : ret.out[k] # old.entries[j].address
            /\ \A j \in 1..ret.num : j # k => ret.out[j] # ret.out[k]
       /\ \A k \in 1..(n0 + ret.num) :
            new.entries[k].address = AddressFromPubKey(PubKey(SeedOf(new), k - 1))

\* NewAddresses gave two addresses to an encrypted wallet of two entries
C14_Witness ==
  /\ ret.op = "NewAddresses" /\ ret.err = nil /\ ret.num = 2
  /\ pre.wallets[ret.id].encrypted
  /\ Len(pre.wallets[ret.id].entries) = 2
  /\ Len(wallets[ret.id].entries) = 4

\* C15: a CreateTransaction with valid parameters on a stored wallet returns
\* ErrMissingPassword exactly when the wallet is encrypted and the password is
\* empty, and ErrWalletNotEncrypted exactly when the wallet is plain and the
\* password is not empty; in both cases whether or not the outputs would cover
\* the amount, with no transaction returned and nothing changed.
C15_PasswordIffEncrypted ==
  ( /\ ret.op = "CreateTransaction"
    /\ enableWalletAPI
    /\ ret.f # "invalid"
    /\ ret.id \in DOMAIN pre.wallets ) =>
    LET w == pre.wallets[ret.id] IN
    /\ ret.err = ErrMissingPassword <=> (w.encrypted /\ ret.password = NoPassword)
    /\ ret.err = ErrWalletNotEncrypted <=> (~w.encrypted /\ ret.password # NoPassword)
    /\ ret.err \in {ErrMissingPassword, ErrWalletNotEncrypted} =>
         ret.out = NoOut /\ held = NoHandle /\ Unchanged

\* a CreateTransaction with a password on a plain wallet whose outputs do not
\* cover the amount
C15_Witness ==
  /\ ret.op = "CreateTransaction" /\ ret.f = "unfunded"
  /\ ret.err = ErrWalletNotEncrypted
  /\ ret.id \in DOMAIN pre.wallets /\ ~pre.wallets[ret.id].encrypted
  /\ ret.password # NoPassword

C17_GetWalletSeed ==
  ret.op = "GetWalletSeed" =>
    LET stored == ret.id \in DOMAIN pre.wallets
        w == pre.wallets[ret.id]
    IN /\ Unchanged
       /\ ret.err = nil <=>
            ( /\ enableWalletAPI /\ enableSeedAPI /\ stored
              /\ w.encrypted /\ ret.password # NoPassword
              /\ ret.password = w.secrets.key )
       /\ ret.err = nil =>
            ret.out = SeedOf(w) /\ SeedFirstAddress(ret.out) = FirstAddress(w)
       /\ ret.err # nil => ret.out = NoOut
       /\ (enableWalletAPI /\ enableSeedAPI /\ stored /\ ~w.encrypted) =>
            ret.err = ErrWalletNotEncrypted

\* GetWalletSeed returned the seed of an encrypted wallet of two entries
C17_Witness ==
  /\ ret.op = "GetWalletSeed" /\ ret.err = nil /\ ret.out = "s2"
  /\ Len(wallets[ret.id].entries) = 2 /\ wallets[ret.id].encrypted

\* two wallet files of the directory have the same first address / a wallet
\* file of the directory has no entry
DirHasDuplicate ==
  \E a \in DOMAIN disk, b \in DOMAIN disk :
    /\ a # b
    /\ disk[a].entries # <<>> /\ disk[b].entries # <<>>
    /\ disk[a].entries[1].address = disk[b].entries[1].address
DirHasEmpty == \E a \in DOMAIN disk : disk[a].entries = <<>>

SecretsWhereTheyBelong(w) ==
  IF w.encrypted
  THEN /\ w.seed = NoSeed
       /\ \A k \in DOMAIN w.entries : w.entries[k].secret = NoSecKey
       /\ w.secrets.seed # NoSeed
       /\ DOMAIN w.secrets.secs = DOMAIN w.entries
       /\ \A k \in DOMAIN w.entries : w.secrets.secs[k] # NoSecKey
  ELSE /\ w.seed # NoSeed
       /\ \A k \in DOMAIN w.entries : w.entries[k].secret = SecKey(w.seed, k - 1)
       /\ w.secrets = NoSecrets

\* C19: in every reachable state each stored wallet and each wallet file that is
\* flagged encrypted has no plaintext seed and no plaintext secret key in any
\* entry, and each one not flagged has its seed and every secret key in plaintext.
C19_EncryptedFields ==
  /\ \A id \in DOMAIN wallets : SecretsWhereTheyBelong(wallets[id])
  /\ \A id \in DOMAIN disk : SecretsWhereTheyBelong(disk[id])

\* NewAddresses appended an entry to an encrypted wallet, under GuardUpdate
C19_Witness ==
  /\ ret.op = "NewAddresses" /\ ret.err = nil /\ ret.num = 1
  /\ pre.wallets[ret.id].encrypted /\ wallets[ret.id].encrypted
  /\ Len(wallets[ret.id].entries) = 2
  /\ \E id \in DOMAIN wallets : ~wallets[id].encrypted

IndexMatchesStore ==
  /\ DOMAIN firstAddrIDMap = FirstAddrs(wallets)
  /\ \A id \in DOMAIN wallets : firstAddrIDMap[FirstAddress(wallets[id])] = id

\* C21: Remove of a stored wallet takes the wallet out of the map and its first
\* address out of the index, and leaves the other wallets; in every reachable
\* state the keys of the index are exactly the first addresses of the stored
\* wallets, each mapped to its wallet's id; and CreateWallet returns ErrSeedUsed
\* only for a seed whose first address a stored wallet has, never for the seed of
\* a wallet that was removed.
C21_RemoveRetiresIndex ==
  /\ IndexMatchesStore
  /\ (ret.op = "Remove" /\ enableWalletAPI /\ ret.id \in DOMAIN pre.wallets) =>
       /\ ret.err = nil
       /\ wallets = Del(pre.wallets, ret.id)
       /\ firstAddrIDMap = Del(pre.index, FirstAddress(pre.wallets[ret.id]))
  /\ (ret.op = "CreateWallet" /\ ret.err = ErrSeedUsed) =>
       SeedFirstAddress(ret.seed) \in FirstAddrs(pre.wallets)

\* CreateWallet succeeded, under another name, with the seed of a wallet that was
\* removed (its file is still in the directory) while another wallet stayed
C21_Witness ==
  /\ ret.op = "CreateWallet" /\ ret.err = nil
  /\ \E id \in DOMAIN disk \ DOMAIN wallets :
       /\ id # ret.id
       /\ SeedOf(disk[id]) = ret.seed
  /\ firstAddrIDMap[SeedFirstAddress(ret.seed)] = ret.id

\* the methods that C22 names as never taking an entry away
KeepingOps == {"NewAddresses", "EncryptWallet", "DecryptWallet", "UpdateWalletLabel"}

\* C22: in every reachable state every stored wallet has at least one entry; the
\* wallet a successful CreateWallet or RecoverWallet stores and returns has at
\* least one; and after NewAddresses (with n = 0 too), EncryptWallet,
\* DecryptWallet or UpdateWalletLabel, successful or not, every stored wallet has
\* the entries it had, in place, and no fewer.
C22_AtLeastOneEntry ==
  /\ \A id \in DOMAIN wallets : Len(wallets[id].entries) >= 1
  /\ (ret.op \in {"CreateWallet", "RecoverWallet"} /\ ret.err = nil) =>
       /\ ret.id \in DOMAIN wallets
       /\ Len(wallets[ret.id].entries) >= 1
       /\ Len(held.w.entries) >= 1
       /\ Len(disk[ret.id].entries) >= 1
  /\ ret.op \in KeepingOps =>
       /\ DOMAIN wallets = DOMAIN pre.wallets
       /\ \A id \in DOMAIN pre.wallets :
            /\ Len(wallets[id].entries) >= Len(pre.wallets[id].entries)
            /\ \A k \in DOMAIN pre.wallets[id].entries :
                 wallets[id].entries[k].address = pre.wallets[id].entries[k].address

\* NewAddresses for no address succeeded on an encrypted wallet of one entry,
\* and the wallet still has it
C22_Witness ==
  /\ ret.op = "NewAddresses" /\ ret.num = 0 /\ ret.err = nil
  /\ pre.wallets[ret.id].encrypted
  /\ Len(pre.wallets[ret.id].entries) = 1
  /\ Len(wallets[ret.id].entries) = 1

\* the error RecoverWallet returns when its checks are applied in the order of
\* the code: the flag, the wallet, its encryption, its type, the seed, the save
RecoverOutcome ==
  IF ~enableWalletAPI THEN ErrWalletAPIDisabled
  ELSE IF ret.id \notin DOMAIN pre.wallets THEN ErrWalletNotExist
  ELSE IF ~pre.wallets[ret.id].encrypted THEN ErrWalletNotEncrypted
  ELSE IF pre.wallets[ret.id].type # WalletTypeDeterministic THEN ErrWalletNotDeterministic
  ELSE IF SeedFirstAddress(ret.seed) # FirstAddress(pre.wallets[ret.id])
  THEN ErrWalletRecoverSeedWrong
  ELSE IF ~ret.saveOK THEN ErrSave
  ELSE nil

PlainOps == {"NewAddresses", "UpdateSecrets", "ViewSecrets"}
\* what the generation or the callback of the call does with the plain wallet
\* that was stored when the call began
OnPlain ==
  IF ret.op = "NewAddresses"
  THEN LET g == GenerateSkycoinAddresses(pre.wallets[ret.id], ret.num)
       IN [err |-> g.err, w |-> g.w]
  ELSE Apply(ret.f, pre.wallets[ret.id])

\* C25: NewAddresses, UpdateSecrets and ViewSecrets on a stored plain wallet.
\* With a non-empty password they return ErrWalletNotEncrypted: no address is
\* returned, no wallet is handed to the callback, nothing is saved and nothing
\* changed. With an empty password the generation or the callback runs on the
\* plain wallet as stored, with no unlocking: the error is the callback's, or the
\* save's; ViewSecrets changes nothing, the other two store and save the wallet
\* the generation or the callback left, when both succeeded.
C25_PlainWalletPassword ==
  ( /\ ret.op \in PlainOps
    /\ enableWalletAPI
    /\ ret.id \in DOMAIN pre.wallets
    /\ ~pre.wallets[ret.id].encrypted ) =>
    IF ret.password # NoPassword
    THEN /\ ret.err = ErrWalletNotEncrypted
         /\ ret.out = NoOut
         /\ held = NoHandle
         /\ Unchanged
    ELSE /\ ret.err = IF OnPlain.err # nil THEN OnPlain.err
                      ELSE IF ret.op # "ViewSecrets" /\ ~ret.saveOK THEN ErrSave
                      ELSE nil
         /\ ret.op # "NewAddresses" => held.w = OnPlain.w
         /\ IF ret.op = "ViewSecrets" \/ ret.err # nil THEN Unchanged
            ELSE /\ wallets[ret.id] = OnPlain.w
                 /\ disk[ret.id] = OnPlain.w
                 /\ firstAddrIDMap = pre.index

\* UpdateSecrets was called with a password, and a callback that generates an
\* address, on a plain wallet of one entry, which still has one
C25_Witness ==
  /\ ret.op = "UpdateSecrets" /\ ret.f = "genAddr" /\ ret.password = LockPassword
  /\ ret.err = ErrWalletNotEncrypted
  /\ ret.id \in DOMAIN pre.wallets /\ ~pre.wallets[ret.id].encrypted
  /\ Len(wallets[ret.id].entries) = 1
  /\ held = NoHandle

\* C26 (as claimed): whatever calls the Service has answered, NewService on its
\* wallet directory succeeds: no two wallet files have the same first address
\* and no wallet file is without entries.
C26_DurableStateStarts ==
  enableWalletAPI =>
    /\ NewService(TRUE, disk).err = nil
    /\ ~DirHasDuplicate
    /\ ~DirHasEmpty

\* C27 (as claimed): the encryptWallet command returns a failed load of the
\* wallet file as WalletLoadError and nothing else under that kind, and a failed
\* save of the locked wallet as WalletSaveError, for which the command's action
\* returns "save wallet failed"; for a wallet file that is already encrypted it
\* returns ErrWalletEncrypted and the file is as it was.
C27_CliErrorKinds ==
  (ret.op = "encryptWallet" /\ ret.f # NotCalled) =>
    /\ Load(pre.disk, ret.id).err # nil <=> ret.f = WalletLoadError
    /\ ret.err = ErrSave =>
         /\ ret.f = WalletSaveError
         /\ ret.out.returned = ErrSaveWalletFailed
    /\ (Load(pre.disk, ret.id).err = nil /\ pre.disk[ret.id].encrypted) =>
         ret.err = ErrWalletEncrypted /\ disk = pre.disk

====
